---- MODULE Spec2Model ----
(***************************************************************************)
(* Model of the RAG news chatbot server: the ingestion job and the         *)
(* ingestion service (jobs/newsIngestionJob.js, services/newsIngestion.js, *)
(* routes/ingestion.js) and the query pipeline (services/ragService.js,    *)
(* services/gemini.js, services/streamingService.js, routes/chat.js).      *)
(* Strings whose content no decision depends on are modelled by their      *)
(* length; scores are tenths (7 is 0.7).                                   *)
(***************************************************************************)
EXTENDS Integers, Sequences, FiniteSets, TLC

\* ------------------------------------------------------------------------
\* Bounds
\* ------------------------------------------------------------------------
MaxPasses == 2
MaxTriggers == 3
MaxQueries == 2
MaxResults == 3
MaxFragments == 2
MaxSentences == 3
MaxChunkCalls == 2
MaxTexts == 12
MaxArticleChunks == 4
MaxCallers == 2
MaxAdds == 4
MaxMessages == 102

\* ------------------------------------------------------------------------
\* Ingestion: state
\* ------------------------------------------------------------------------
VARIABLES
  isRunning,          \* NewsIngestionJob.isRunning
  stats,              \* NewsIngestionJob.stats
  processedArticles,  \* NewsIngestionService.processedArticles
  processedCount,     \* per link, the calls of processArticle that returned an article
  passes,             \* the executions of ingestAllSources, by pass id
  triggers,           \* number of triggers received so far
  droppedRuns         \* number of runIngestion calls that returned at the guard

ingestVars == <<isRunning, stats, processedArticles, processedCount, passes, triggers,
               droppedRuns>>

\* ------------------------------------------------------------------------
\* Query pipeline: state
\* ------------------------------------------------------------------------
VARIABLES
  queries,       \* the chat messages in flight, by query id
  channel,       \* the events emitted to each session's room, in order
  history,       \* the session store: the messages of each session, oldest first
  interactions,  \* the rows inserted into chat_interactions
  dbConnected    \* DatabaseManager.isConnected

queryVars == <<queries, channel, history, interactions, dbConnected>>

\* ------------------------------------------------------------------------
\* Embedding service: state
\* ------------------------------------------------------------------------
VARIABLES
  embedCall      \* one call of EmbeddingService.generateEmbedding

embedVars == <<embedCall>>

\* ------------------------------------------------------------------------
\* Chunker: state
\* ------------------------------------------------------------------------
VARIABLES
  chunker,       \* the call of NewsIngestionService.chunkText in progress
  chunkCalls     \* the completed calls of chunkText: arguments and result

chunkVars == <<chunker, chunkCalls>>

\* ------------------------------------------------------------------------
\* Single service calls: state
\* ------------------------------------------------------------------------
VARIABLES
  contextCall,   \* one call of RAGService.prepareContext: arguments and result
  batchCall,     \* one call of EmbeddingService.generateBatchEmbeddings
  articleCall    \* one call of NewsIngestionService.processArticle

\* ------------------------------------------------------------------------
\* Session store: state
\* ------------------------------------------------------------------------
VARIABLES
  sessionRecord,  \* the value stored under session:<id>
  historyList,    \* the list stored under session:<id>:history, newest first
  adds,           \* the calls of SessionManager.addMessageToSession, by caller
  pushedCount,    \* number of messages pushed so far; a message is named by its rank
  completedAdds,  \* number of calls completed since the session was created
  historyRead     \* what the last getSessionHistory returned, until the next write

sessionVars == <<sessionRecord, historyList, adds, pushedCount, completedAdds, historyRead>>

serviceVars == <<contextCall, batchCall, articleCall, sessionVars>>

vars == <<isRunning, stats, processedArticles, processedCount, passes, triggers, droppedRuns,
          queries, channel, history, interactions, dbConnected,
          embedCall, chunker, chunkCalls, contextCall, batchCall, articleCall,
          sessionRecord, historyList, adds, pushedCount, completedAdds, historyRead>>

Passes == 1..MaxPasses

\* The entries (links) each feed of rssSources serves; the second feed
\* carries a link of the first.
FeedItems == << <<"a", "b", "c">>, <<"c">> >>

RECURSIVE Links(_)
Links(feeds) ==
  IF feeds = <<>> THEN {}
  ELSE {Head(feeds)[k] : k \in 1..Len(Head(feeds))} \cup Links(Tail(feeds))

rssSources == 1..Len(FeedItems)

JobTriggers == {"cron", "startup", "manual"}

\* A pass of ingestAllSources: its position, the locals `articles` and
\* `allArticles`, and a record of what it did: the links processed when it
\* started (seen), the outcome of each feed fetch (fetched) and of each entry
\* it visited (log).
IdlePass == [pc |-> "idle", origin |-> "none", feed |-> 0, item |-> 0,
             articles |-> <<>>, allArticles |-> <<>>,
             seen |-> {}, fetched |-> <<>>, log |-> <<>>]

LogEntry(r, result) ==
  [feed |-> r.feed, link |-> FeedItems[r.feed][r.item], result |-> result]

\* A pass is executing from the call of ingestAllSources until it returns.
Executing(p) == passes[p].pc \in {"fetch", "items", "article"}

ExecutingPasses == {p \in Passes : Executing(p)}

FreePasses == {p \in Passes : passes[p].pc = "idle"}

FreePass == CHOOSE p \in FreePasses : \A o \in FreePasses : p <= o

IngestInit ==
  /\ isRunning = FALSE
  /\ stats = [totalRuns |-> 0, successfulRuns |-> 0, failedRuns |-> 0,
              totalArticlesProcessed |-> 0]
  /\ processedArticles = {}
  /\ processedCount = [l \in Links(FeedItems) |-> 0]
  /\ passes = [p \in Passes |-> IdlePass]
  /\ triggers = 0
  /\ droppedRuns = 0

\* The first statement of ingestAllSources: an empty result and the first feed.
StartedPass(origin) ==
  [IdlePass EXCEPT !.pc = "fetch", !.origin = origin, !.feed = 1,
                   !.seen = processedArticles]

\* ingestFromRSS returned `articles` for the current feed: ingestAllSources
\* appends them and goes on to the next feed, or returns after the last one.
FeedDone(r, articles) ==
  IF r.feed < Len(FeedItems)
    THEN [r EXCEPT !.pc = "fetch", !.feed = r.feed + 1, !.item = 0, !.articles = <<>>,
                   !.allArticles = r.allArticles \o articles]
    ELSE [r EXCEPT !.pc = "returned", !.item = 0, !.articles = <<>>,
                   !.allArticles = r.allArticles \o articles]

\* The for loop of ingestFromRSS moves past the current item.
ItemDone(r, articles) ==
  IF r.item < Len(FeedItems[r.feed])
    THEN [r EXCEPT !.pc = "items", !.item = r.item + 1, !.articles = articles]
    ELSE FeedDone(r, articles)

\* NewsIngestionJob.runIngestion up to its first await; called by the cron
\* tick, the startup timer and runManual.
RunIngestion(kind) ==
  /\ UNCHANGED <<queryVars, embedVars, chunkVars, serviceVars>>
  /\ triggers < MaxTriggers
  /\ triggers' = triggers + 1
  /\ IF isRunning
       THEN /\ droppedRuns' = droppedRuns + 1
            /\ UNCHANGED <<isRunning, stats, processedArticles, processedCount, passes>>
       ELSE /\ FreePasses # {}
            /\ isRunning' = TRUE
            /\ stats' = [stats EXCEPT !.totalRuns = @ + 1]
            /\ passes' = [passes EXCEPT ![FreePass] = StartedPass(kind)]
            /\ UNCHANGED <<droppedRuns, processedArticles, processedCount>>

\* router.post("/trigger") up to its first await.
RouteTrigger ==
  /\ UNCHANGED <<queryVars, embedVars, chunkVars, serviceVars>>
  /\ triggers < MaxTriggers
  /\ FreePasses # {}
  /\ triggers' = triggers + 1
  /\ passes' = [passes EXCEPT ![FreePass] = StartedPass("route")]
  /\ UNCHANGED <<isRunning, stats, processedArticles, processedCount, droppedRuns>>

\* Variant of ingestAllSources in which a feed that cannot be fetched or
\* parsed ends the run.
FetchFeed_Aborts(p, ok) ==
  /\ UNCHANGED <<queryVars, embedVars, chunkVars, serviceVars>>
  /\ passes[p].pc = "fetch"
  /\ LET r == [passes[p] EXCEPT !.fetched = Append(@, ok)]
     IN passes' = [passes EXCEPT ![p] =
          IF ok /\ Len(FeedItems[r.feed]) > 0
            THEN [r EXCEPT !.pc = "items", !.item = 1, !.articles = <<>>]
            ELSE IF ok THEN FeedDone(r, <<>>)
            ELSE [r EXCEPT !.pc = "returned"]]
  /\ UNCHANGED <<isRunning, stats, processedArticles, processedCount, triggers, droppedRuns>>

\* ingestFromRSS: the feed is fetched and parsed (ok), or the fetch or the
\* parse fails and ingestFromRSS returns [].
FetchFeed(p, ok) ==
  /\ UNCHANGED <<queryVars, embedVars, chunkVars, serviceVars>>
  /\ passes[p].pc = "fetch"
  /\ LET r == [passes[p] EXCEPT !.fetched = Append(@, ok)]
     IN passes' = [passes EXCEPT ![p] =
          IF ok /\ Len(FeedItems[r.feed]) > 0
            THEN [r EXCEPT !.pc = "items", !.item = 1, !.articles = <<>>]
            ELSE FeedDone(r, <<>>)]
  /\ UNCHANGED <<isRunning, stats, processedArticles, processedCount, triggers, droppedRuns>>

\* Variant of the loop of ingestFromRSS without the processedArticles test.
CheckItem_NoDedup(p) ==
  /\ UNCHANGED <<queryVars, embedVars, chunkVars, serviceVars>>
  /\ passes[p].pc = "items"
  /\ passes' = [passes EXCEPT ![p] = [@ EXCEPT !.pc = "article"]]
  /\ UNCHANGED <<isRunning, stats, processedArticles, processedCount, triggers, droppedRuns>>

\* ingestFromRSS loop head: skip a link that is in processedArticles, else
\* call processArticle and await it.
CheckItem(p) ==
  /\ UNCHANGED <<queryVars, embedVars, chunkVars, serviceVars>>
  /\ passes[p].pc = "items"
  /\ LET r == passes[p]
         link == FeedItems[r.feed][r.item]
     IN passes' = [passes EXCEPT ![p] =
          IF link \in processedArticles
            THEN ItemDone([r EXCEPT !.log = Append(@, LogEntry(r, "skipped"))], r.articles)
            ELSE [r EXCEPT !.pc = "article"]]
  /\ UNCHANGED <<isRunning, stats, processedArticles, processedCount, triggers, droppedRuns>>

\* Variant of the loop body that marks the link whatever processArticle
\* returned.
ArticleProcessed_MarksFailed(p, ok) ==
  /\ UNCHANGED <<queryVars, embedVars, chunkVars, serviceVars>>
  /\ passes[p].pc = "article"
  /\ LET r == passes[p]
         link == FeedItems[r.feed][r.item]
         logged == [r EXCEPT !.log = Append(@, LogEntry(r, IF ok THEN "ok" ELSE "failed"))]
     IN /\ passes' = [passes EXCEPT ![p] =
              ItemDone(logged, IF ok THEN Append(r.articles, link) ELSE r.articles)]
        /\ processedArticles' = processedArticles \cup {link}
        /\ processedCount' = IF ok THEN [processedCount EXCEPT ![link] = @ + 1]
                                   ELSE processedCount
  /\ UNCHANGED <<isRunning, stats, triggers, droppedRuns>>

\* processArticle resolved: an article (pushed, link marked as processed) or
\* null (processArticle caught a failure).
ArticleProcessed(p, ok) ==
  /\ UNCHANGED <<queryVars, embedVars, chunkVars, serviceVars>>
  /\ passes[p].pc = "article"
  /\ LET r == passes[p]
         link == FeedItems[r.feed][r.item]
         logged == [r EXCEPT !.log = Append(@, LogEntry(r, IF ok THEN "ok" ELSE "failed"))]
     IN /\ passes' = [passes EXCEPT ![p] =
              ItemDone(logged, IF ok THEN Append(r.articles, link) ELSE r.articles)]
        /\ processedArticles' = IF ok THEN processedArticles \cup {link}
                                      ELSE processedArticles
        /\ processedCount' = IF ok THEN [processedCount EXCEPT ![link] = @ + 1]
                                   ELSE processedCount
  /\ UNCHANGED <<isRunning, stats, triggers, droppedRuns>>

\* Variant of runIngestion without the finally block.
FinishRun_NoFinally(p) ==
  /\ UNCHANGED <<queryVars, embedVars, chunkVars, serviceVars>>
  /\ passes[p].pc \in {"returned", "thrown"}
  /\ passes[p].origin \in JobTriggers
  /\ stats' = IF passes[p].pc = "returned"
                THEN [stats EXCEPT !.successfulRuns = @ + 1,
                                   !.totalArticlesProcessed = @ + Len(passes[p].allArticles)]
                ELSE [stats EXCEPT !.failedRuns = @ + 1]
  /\ passes' = [passes EXCEPT ![p] = IdlePass]
  /\ UNCHANGED <<isRunning, processedArticles, processedCount, triggers, droppedRuns>>

\* runIngestion after ingestAllSources settled: the rest of the try block
\* when it resolved, the catch block had it rejected (ingestAllSources
\* catches every failure of a feed, so no pass ends in "thrown"), and the
\* finally block.
FinishRun(p) ==
  /\ UNCHANGED <<queryVars, embedVars, chunkVars, serviceVars>>
  /\ passes[p].pc \in {"returned", "thrown"}
  /\ passes[p].origin \in JobTriggers
  /\ stats' = IF passes[p].pc = "returned"
                THEN [stats EXCEPT !.successfulRuns = @ + 1,
                                   !.totalArticlesProcessed = @ + Len(passes[p].allArticles)]
                ELSE [stats EXCEPT !.failedRuns = @ + 1]
  /\ isRunning' = FALSE
  /\ passes' = [passes EXCEPT ![p] = IdlePass]
  /\ UNCHANGED <<processedArticles, processedCount, triggers, droppedRuns>>

\* router.post("/trigger") after ingestAllSources resolved: res.json.
RouteRespond(p) ==
  /\ UNCHANGED <<queryVars, embedVars, chunkVars, serviceVars>>
  /\ passes[p].pc = "returned"
  /\ passes[p].origin = "route"
  /\ passes' = [passes EXCEPT ![p] = IdlePass]
  /\ UNCHANGED <<isRunning, stats, processedArticles, processedCount, triggers, droppedRuns>>

\* ------------------------------------------------------------------------
\* Query pipeline: data
\* ------------------------------------------------------------------------
\* RAGService constructor
contextWindow == 4000
maxSources == 5
similarityThreshold == 7

Queries == 1..MaxQueries

Sessions == {"s1", "s2"}

\* Lengths of the query texts a client sends.
QueryLens == {20, 2000, 3960}

\* The points of the vector index, as searchSimilar maps them: the strings of
\* a chunk by their length, the score in tenths.
IndexChunks == <<
  [id |-> 1, articleUrl |-> "u1", score |-> 9, sourceLen |-> 3, titleLen |-> 40,
   dateLen |-> 9, textLen |-> 1800],
  [id |-> 2, articleUrl |-> "u1", score |-> 8, sourceLen |-> 3, titleLen |-> 40,
   dateLen |-> 9, textLen |-> 500],
  [id |-> 3, articleUrl |-> "u2", score |-> 9, sourceLen |-> 8, titleLen |-> 60,
   dateLen |-> 10, textLen |-> 1800],
  [id |-> 4, articleUrl |-> "u2", score |-> 5, sourceLen |-> 8, titleLen |-> 60,
   dateLen |-> 10, textLen |-> 500],
  [id |-> 5, articleUrl |-> "u3", score |-> 7, sourceLen |-> 3, titleLen |-> 20,
   dateLen |-> 8, textLen |-> 2500] >>

ChunkSet == {IndexChunks[i] : i \in 1..Len(IndexChunks)}

\* What the index may answer to one search: up to MaxResults distinct points,
\* ranked by descending score.
SearchAnswers ==
  {s \in UNION {[1..n -> ChunkSet] : n \in 0..MaxResults} :
     /\ \A i, j \in 1..Len(s) : i # j => s[i].id # s[j].id
     /\ \A i \in 1..(Len(s) - 1) : s[i].score >= s[i + 1].score}

\* Texts are sequences of tokens; " " is white space.
NoMatchText == <<"I couldn't find any relevant information">>
SafetyText == <<"I cannot provide a response due to safety guidelines">>
QuotaText == <<"I'm currently experiencing high demand">>
ErrorText == <<"I encountered an error while processing your question">>

\* What generateContent may do: a text, or a failure of one of three kinds.
GenOutcomes ==
  {[kind |-> "text", text |-> <<"An", " ", "answer">>],
   [kind |-> "text", text |-> <<" ", "padded", " ">>],
   [kind |-> "text", text |-> <<" ">>],
   [kind |-> "text", text |-> <<>>],
   [kind |-> "safety", text |-> <<>>],
   [kind |-> "quota", text |-> <<>>],
   [kind |-> "other", text |-> <<>>]}

\* The fragments a provider stream may yield.
Fragments == {<<"Hello">>, <<" ", "world">>}

\* ------------------------------------------------------------------------
\* Query pipeline: pure functions
\* ------------------------------------------------------------------------
\* String.prototype.trim
RECURSIVE TrimLeft(_)
TrimLeft(t) == IF t # <<>> /\ Head(t) = " " THEN TrimLeft(Tail(t)) ELSE t

RECURSIVE TrimRight(_)
TrimRight(t) ==
  IF t # <<>> /\ t[Len(t)] = " " THEN TrimRight(SubSeq(t, 1, Len(t) - 1)) ELSE t

Trim(t) == TrimRight(TrimLeft(t))

\* options.similarityThreshold || this.similarityThreshold (0 stands for an
\* absent option, which || treats like 0).
EffectiveThreshold(options) ==
  IF options.similarityThreshold # 0 THEN options.similarityThreshold
                                      ELSE similarityThreshold

\* Variant of the filter that lets every search result through.
FilterRelevant_NoThreshold(results, threshold) == results

\* searchResults.filter(chunk => chunk.score >= threshold)
FilterRelevant(results, threshold) ==
  SelectSeq(results, LAMBDA c : c.score >= threshold)

\* Array.prototype.sort((a, b) => b.score - a.score): stable, descending.
RECURSIVE InsertByScore(_, _)
InsertByScore(sorted, c) ==
  IF sorted = <<>> THEN <<c>>
  ELSE IF sorted[Len(sorted)].score >= c.score THEN Append(sorted, c)
  ELSE Append(InsertByScore(SubSeq(sorted, 1, Len(sorted) - 1), c), sorted[Len(sorted)])

RECURSIVE SortByScore(_)
SortByScore(chunks) ==
  IF chunks = <<>> THEN <<>>
  ELSE InsertByScore(SortByScore(SubSeq(chunks, 1, Len(chunks) - 1)), chunks[Len(chunks)])

\* `User Question: ${query}\n\nRelevant News Information:\n\n`.length
QueryContextLength(queryLen) == 15 + queryLen + 30

\* `Source: ${source} - ${articleTitle}\nPublished: ${date}\nContent: ${text}\n\n`.length
ChunkTextLength(c) ==
  8 + c.sourceLen + 3 + c.titleLen + 12 + c.dateLen + 10 + c.textLen + 2

\* The for loop of prepareContext from position i on.
RECURSIVE PackChunks(_, _, _, _)
\* Variant of the loop that passes over a chunk that does not fit and goes on.
RECURSIVE PackChunks_SkipsMisfit(_, _, _, _)
PackChunks_SkipsMisfit(sorted, i, currentLength, usedChunks) ==
  IF i > Len(sorted) THEN [chunks |-> usedChunks, length |-> currentLength]
  ELSE IF currentLength + ChunkTextLength(sorted[i]) > contextWindow
    THEN PackChunks_SkipsMisfit(sorted, i + 1, currentLength, usedChunks)
  ELSE PackChunks_SkipsMisfit(sorted, i + 1, currentLength + ChunkTextLength(sorted[i]),
                              Append(usedChunks, sorted[i]))

PackChunks(sorted, i, currentLength, usedChunks) ==
  IF i > Len(sorted) THEN [chunks |-> usedChunks, length |-> currentLength]
  ELSE IF currentLength + ChunkTextLength(sorted[i]) > contextWindow
    THEN [chunks |-> usedChunks, length |-> currentLength]
  ELSE PackChunks(sorted, i + 1, currentLength + ChunkTextLength(sorted[i]),
                  Append(usedChunks, sorted[i]))

RECURSIVE SumLengths(_)
SumLengths(chunks) ==
  IF chunks = <<>> THEN 0 ELSE ChunkTextLength(Head(chunks)) + SumLengths(Tail(chunks))

\* RAGService.prepareContext; textLength is (queryContext + contextText).length.
prepareContext(chunks, queryLen) ==
  LET packed == PackChunks(SortByScore(chunks), 1, QueryContextLength(queryLen), <<>>)
  IN [textLength |-> QueryContextLength(queryLen) + SumLengths(packed.chunks),
      chunks |-> packed.chunks,
      length |-> packed.length]

\* The Map of prepareSources: the first chunk seen of each articleUrl.
RECURSIVE UniqueSources(_, _)
UniqueSources(chunks, acc) ==
  IF chunks = <<>> THEN acc
  ELSE LET c == Head(chunks)
       IN IF \E i \in 1..Len(acc) : acc[i].url = c.articleUrl
            THEN UniqueSources(Tail(chunks), acc)
            ELSE UniqueSources(Tail(chunks),
                   Append(acc, [url |-> c.articleUrl, titleLen |-> c.titleLen,
                                sourceLen |-> c.sourceLen, score |-> c.score]))

\* RAGService.prepareSources (relevanceScore is the field score here, so that
\* the sort of prepareContext serves both).
prepareSources(chunks) ==
  LET sorted == SortByScore(UniqueSources(chunks, <<>>))
  IN SubSeq(sorted, 1, IF Len(sorted) < maxSources THEN Len(sorted) ELSE maxSources)

\* Reading a property that an object does not have gives undefined.
Undefined == 0

\* item.source, item.articleTitle and item.text for a chunk (which has the
\* properties source, articleTitle, text, ...) and for a citation made by
\* prepareSources (title, url, source, pubDate, relevanceScore). A text is
\* identified by the id of its chunk.
ReadProperty(item, name) ==
  IF "textLen" \in DOMAIN item
    THEN CASE name = "source" -> item.sourceLen
           [] name = "articleTitle" -> item.titleLen
           [] name = "text" -> item.id
           [] OTHER -> Undefined
    ELSE CASE name = "source" -> item.sourceLen
           [] name = "title" -> item.titleLen
           [] OTHER -> Undefined

\* StreamingService.buildPrompt: the context part of the prompt, one block
\* `Source: ${item.source}\nTitle: ${item.articleTitle}\nContent: ${item.text}`
\* per item.
buildPrompt(context) ==
  [k \in 1..Len(context) |->
     [source |-> ReadProperty(context[k], "source"),
      articleTitle |-> ReadProperty(context[k], "articleTitle"),
      text |-> ReadProperty(context[k], "text")]]

\* ------------------------------------------------------------------------
\* Query pipeline: operations
\* ------------------------------------------------------------------------
NoMetadata == [chunksFound |-> 0, chunksUsed |-> 0, contextLength |-> 0]

NoResult == [response |-> <<>>, sources |-> <<>>, metadata |-> NoMetadata]

NoContext == [textLength |-> 0, chunks |-> <<>>, length |-> 0]

NoOptions == [similarityThreshold |-> 0]

\* Before generateResponse was called: no provider outcome, nothing returned.
NoOutcome == [kind |-> "none", text |-> <<>>]

NoGenResult == [thrown |-> FALSE, text |-> <<>>]

IdleQuery ==
  [pc |-> "idle", mode |-> "none", session |-> "none", queryLen |-> 0,
   options |-> NoOptions, path |-> "none",
   searchResults |-> <<>>, relevantChunks |-> <<>>, context |-> NoContext,
   response |-> <<>>, sources |-> <<>>, result |-> NoResult,
   logOutcome |-> "none", outcome |-> "none",
   embedCalls |-> 0, searchCalls |-> 0, genCalls |-> 0, streamCalls |-> 0,
   logCalls |-> 0, genOutcome |-> NoOutcome, genResult |-> NoGenResult,
   failedAt |-> "none",
   \* the stage events of processQuery, in the order they happened
   trace |-> <<>>,
   streamContext |-> <<>>, streamPrompt |-> <<>>, fragments |-> <<>>,
   fullResponse |-> <<>>]

Message(role, content, error, sources) ==
  [role |-> role, content |-> content, error |-> error, sources |-> sources]

NoMessage == Message("none", <<>>, FALSE, <<>>)

Event(type, q) ==
  [type |-> type, query |-> q, typing |-> FALSE, chunk |-> <<>>,
   isComplete |-> FALSE, fullResponse |-> <<>>, message |-> NoMessage]

\* Variant that publishes to every session: io.emit(...)
Emit_Broadcast(ch, sessionId, events) == [s \in Sessions |-> ch[s] \o events]

\* io.to(sessionId).emit(...)
Emit(ch, sessionId, events) == [ch EXCEPT ![sessionId] = @ \o events]

\* SessionManager.addMessageToSession, as the history read back oldest first.
addMessageToSession(h, sessionId, message) ==
  [h EXCEPT ![sessionId] = Append(@, message)]

\* How a call of addMessageToSession can end: every command reached the
\* store; the first command (lpush) failed, the message is not stored and the
\* call rejects; or the message was pushed and a later command of the call
\* (expire, ltrim, the session read or write) failed, so the call rejects too.
StoreOutcomes == {"stored", "lost", "stored_then_failed"}

Resolved(store) == store = "stored"

\* The history after a call of addMessageToSession that ended as `store`.
HistoryAfter(h, sessionId, message, store) ==
  IF store = "lost" THEN h ELSE addMessageToSession(h, sessionId, message)

QueryInit ==
  /\ queries = [q \in Queries |-> IdleQuery]
  /\ channel = [s \in Sessions |-> <<>>]
  /\ history = [s \in Sessions |-> <<>>]
  /\ interactions = <<>>
  /\ dbConnected \in BOOLEAN

\* router.post("/message") with a non-empty message and session id, then
\* processRAGResponse or processStreamingRAGResponse, and processQuery up to
\* the call of generateQueryEmbedding.
PostMessage(q, queryLen, sessionId, streaming) ==
  /\ queries[q].pc = "idle"
  /\ queryLen > 0
  /\ history' = addMessageToSession(history, sessionId,
                  Message("user", <<"query">>, FALSE, <<>>))
  /\ channel' = Emit(channel, sessionId,
        << [Event("user-message", q) EXCEPT
              !.message = Message("user", <<"query">>, FALSE, <<>>)],
           [Event("bot-typing", q) EXCEPT !.typing = TRUE] >>)
  /\ queries' = [queries EXCEPT ![q] =
        [IdleQuery EXCEPT !.pc = "embedding",
                          !.mode = IF streaming THEN "streaming" ELSE "sync",
                          !.session = sessionId, !.queryLen = queryLen,
                          !.embedCalls = 1, !.trace = <<"embed_call">>]]
  /\ UNCHANGED <<interactions, dbConnected>>
  /\ UNCHANGED <<ingestVars, embedVars, chunkVars, serviceVars>>

\* router.post("/message") when addMessageToSession rejects for the user
\* message: the catch of the route answers 500; nothing is emitted and no
\* response is processed.
RefuseMessage(q, sessionId, store) ==
  /\ queries[q].pc = "idle"
  /\ ~Resolved(store)
  /\ history' = HistoryAfter(history, sessionId,
                  Message("user", <<"query">>, FALSE, <<>>), store)
  /\ queries' = [queries EXCEPT ![q] =
        [IdleQuery EXCEPT !.pc = "refused", !.session = sessionId]]
  /\ UNCHANGED <<channel, interactions, dbConnected>>
  /\ UNCHANGED <<ingestVars, embedVars, chunkVars, serviceVars>>

\* Variant of processQuery that searches even if the embedding failed.
EmbedQuery_SearchesAnyway(q, ok) ==
  /\ queries[q].pc = "embedding"
  /\ queries' = [queries EXCEPT ![q] =
        [@ EXCEPT !.pc = "searching", !.searchCalls = @ + 1,
                  !.trace = @ \o <<IF ok THEN "embed_ok" ELSE "embed_failed",
                                   "search_call">>]]
  /\ UNCHANGED <<channel, history, interactions, dbConnected>>
  /\ UNCHANGED <<ingestVars, embedVars, chunkVars, serviceVars>>

\* generateQueryEmbedding resolved or rejected; on success processQuery calls
\* searchInVectorDB, on failure its catch rethrows.
EmbedQuery(q, ok) ==
  /\ queries[q].pc = "embedding"
  /\ queries' = [queries EXCEPT ![q] =
        IF ok THEN [@ EXCEPT !.pc = "searching", !.searchCalls = @ + 1,
                             !.trace = @ \o <<"embed_ok", "search_call">>]
              ELSE [@ EXCEPT !.pc = "pq_thrown", !.failedAt = "embedding",
                             !.trace = @ \o <<"embed_failed", "thrown">>]]
  /\ UNCHANGED <<channel, history, interactions, dbConnected>>
  /\ UNCHANGED <<ingestVars, embedVars, chunkVars, serviceVars>>

\* searchInVectorDB rejected: the catch of processQuery rethrows.
SearchFail(q) ==
  /\ queries[q].pc = "searching"
  /\ queries' = [queries EXCEPT ![q].pc = "pq_thrown", ![q].failedAt = "search",
                                ![q].trace = @ \o <<"search_failed", "thrown">>]
  /\ UNCHANGED <<channel, history, interactions, dbConnected>>
  /\ UNCHANGED <<ingestVars, embedVars, chunkVars, serviceVars>>

\* The return value of the no-match branch of processQuery.
NoMatchResult(searchResults) ==
  [response |-> NoMatchText, sources |-> <<>>,
   metadata |-> [chunksFound |-> Len(searchResults), chunksUsed |-> 0,
                 contextLength |-> 0]]

\* searchInVectorDB resolved with `results`: processQuery steps 3 and 4 up to
\* the call of generateResponse, or the no-match return.
SearchDone(q, results) ==
  /\ queries[q].pc = "searching"
  /\ LET r == queries[q]
         relevantChunks == FilterRelevant(results, EffectiveThreshold(r.options))
     IN queries' = [queries EXCEPT ![q] =
          IF Len(relevantChunks) = 0
            THEN [r EXCEPT !.pc = "pq_returned", !.path = "no_match",
                           !.searchResults = results,
                           !.result = NoMatchResult(results),
                           !.trace = @ \o <<"search_ok", "returned">>]
            ELSE [r EXCEPT !.pc = "generating", !.path = "generate",
                           !.searchResults = results,
                           !.trace = @ \o <<"search_ok", "context", "gen_call">>,
                           \* prepareContext sorts the array it is given
                           !.relevantChunks = SortByScore(relevantChunks),
                           !.context = prepareContext(relevantChunks, r.queryLen),
                           !.genCalls = @ + 1]]
  /\ UNCHANGED <<channel, history, interactions, dbConnected>>
  /\ UNCHANGED <<ingestVars, embedVars, chunkVars, serviceVars>>

\* GeminiService.generateResponse, given what generateContent did: the text
\* returned, or thrown.
\* Variant of generateResponse without the test for an empty text.
generateResponse_AcceptsEmpty(outcome) ==
  IF outcome.kind = "text"
    THEN [thrown |-> FALSE, text |-> Trim(outcome.text)]
  ELSE IF outcome.kind = "safety" THEN [thrown |-> FALSE, text |-> SafetyText]
  ELSE IF outcome.kind = "quota" THEN [thrown |-> FALSE, text |-> QuotaText]
  ELSE [thrown |-> TRUE, text |-> <<>>]

generateResponse(outcome) ==
  IF outcome.kind = "text" /\ Trim(outcome.text) # <<>>
    THEN [thrown |-> FALSE, text |-> Trim(outcome.text)]
  ELSE IF outcome.kind = "safety" THEN [thrown |-> FALSE, text |-> SafetyText]
  ELSE IF outcome.kind = "quota" THEN [thrown |-> FALSE, text |-> QuotaText]
  ELSE [thrown |-> TRUE, text |-> <<>>]

\* Variant of logInteraction without the catch: a rejected insert is thrown.
logInteraction_Rethrows(connected, insertOk) ==
  [submitted |-> connected, stored |-> connected /\ insertOk,
   thrown |-> connected /\ ~insertOk]

\* RAGService.logInteraction: whether db.query is called, whether the row is
\* inserted, and whether the call throws to processQuery.
logInteraction(connected, insertOk) ==
  [submitted |-> connected, stored |-> connected /\ insertOk, thrown |-> FALSE]

\* The metadata processQuery logs and returns after a generation.
QueryMetadata(r) ==
  [chunksFound |-> Len(r.searchResults), chunksUsed |-> Len(r.relevantChunks),
   contextLength |-> r.context.textLength]

\* The row logInteraction inserts for query q.
InteractionRow(q, r) ==
  [query |-> q, sessionId |-> r.session, response |-> r.response,
   sources |-> r.sources, metadata |-> QueryMetadata(r)]

\* The value processQuery returns after a generation.
QueryResult(r) ==
  [response |-> r.response, sources |-> r.sources, metadata |-> QueryMetadata(r)]

\* generateResponse settled: processQuery steps 6 and 7 up to the await of
\* db.query (or to the return when the database is not connected).
GenerateDone(q, outcome) ==
  /\ queries[q].pc = "generating"
  /\ LET gen == generateResponse(outcome)
         called == [queries[q] EXCEPT !.genOutcome = outcome, !.genResult = gen]
         r == [called EXCEPT !.response = gen.text,
                             !.sources = prepareSources(queries[q].relevantChunks)]
     IN queries' = [queries EXCEPT ![q] =
          IF gen.thrown THEN [called EXCEPT !.pc = "pq_thrown", !.failedAt = "generation",
                                            !.trace = @ \o <<"gen_failed", "thrown">>]
          ELSE IF logInteraction(dbConnected, TRUE).submitted
            THEN [r EXCEPT !.pc = "logging", !.logCalls = @ + 1,
                           !.trace = @ \o <<"gen_ok", "log_call">>]
            ELSE [r EXCEPT !.pc = "pq_returned", !.logOutcome = "disconnected",
                           !.result = QueryResult(r),
                           !.trace = @ \o <<"gen_ok", "returned">>]]
  /\ UNCHANGED <<channel, history, interactions, dbConnected>>
  /\ UNCHANGED <<ingestVars, embedVars, chunkVars, serviceVars>>

\* db.query settled inside logInteraction; processQuery returns its result.
LogDone(q, insertOk) ==
  /\ queries[q].pc = "logging"
  /\ LET r == queries[q]
         log == logInteraction(TRUE, insertOk)
     IN /\ interactions' = IF log.stored THEN Append(interactions, InteractionRow(q, r))
                                         ELSE interactions
        /\ queries' = [queries EXCEPT ![q] =
             IF log.thrown
               THEN [r EXCEPT !.pc = "pq_thrown", !.logOutcome = "insert_failed",
                              !.trace = @ \o <<"thrown">>]
               ELSE [r EXCEPT !.pc = "pq_returned",
                              !.logOutcome = IF insertOk THEN "inserted" ELSE "insert_failed",
                              !.result = QueryResult(r),
                              !.trace = @ \o <<"returned">>]]
  /\ UNCHANGED <<channel, history, dbConnected>>
  /\ UNCHANGED <<ingestVars, embedVars, chunkVars, serviceVars>>

\* Variant that emits the answer before the typing indicator is cleared.
DeliverResponse_MessageFirst(q, store) ==
  /\ queries[q].pc = "pq_returned"
  /\ queries[q].mode = "sync"
  /\ LET r == queries[q]
         botMessage == Message("assistant", r.result.response, FALSE, r.result.sources)
     IN /\ history' = HistoryAfter(history, r.session, botMessage, store)
        /\ channel' = IF Resolved(store)
             THEN Emit(channel, r.session,
                    << [Event("bot-message", q) EXCEPT !.message = botMessage],
                       Event("bot-typing", q) >>)
             ELSE channel
        /\ queries' = IF Resolved(store)
             THEN [queries EXCEPT ![q].pc = "done", ![q].outcome = "answered"]
             ELSE [queries EXCEPT ![q].pc = "save_thrown", ![q].failedAt = "save"]
  /\ UNCHANGED <<interactions, dbConnected>>
  /\ UNCHANGED <<ingestVars, embedVars, chunkVars, serviceVars>>

\* processRAGResponse after processRAGQuery resolved.
DeliverResponse(q, store) ==
  /\ queries[q].pc = "pq_returned"
  /\ queries[q].mode = "sync"
  /\ LET r == queries[q]
         botMessage == Message("assistant", r.result.response, FALSE, r.result.sources)
     IN /\ history' = HistoryAfter(history, r.session, botMessage, store)
        /\ channel' = IF Resolved(store)
             THEN Emit(channel, r.session,
                    << Event("bot-typing", q),
                       [Event("bot-message", q) EXCEPT !.message = botMessage] >>)
             ELSE channel
        /\ queries' = IF Resolved(store)
             THEN [queries EXCEPT ![q].pc = "done", ![q].outcome = "answered"]
             ELSE [queries EXCEPT ![q].pc = "save_thrown", ![q].failedAt = "save"]
  /\ UNCHANGED <<interactions, dbConnected>>
  /\ UNCHANGED <<ingestVars, embedVars, chunkVars, serviceVars>>

\* Variant of the catch blocks that emits the error message without saving it.
HandleError_NotSaved(q, store) ==
  /\ queries[q].pc \in {"pq_thrown", "stream_thrown", "save_thrown"}
  /\ LET r == queries[q]
         errorMessage == Message("assistant", ErrorText, TRUE, <<>>)
     IN /\ channel' = Emit(channel, r.session,
             << Event("bot-typing", q),
                [Event("bot-message", q) EXCEPT !.message = errorMessage] >>)
        /\ queries' = [queries EXCEPT ![q].pc = "done", ![q].outcome = "error"]
  /\ UNCHANGED <<history, interactions, dbConnected>>
  /\ UNCHANGED <<ingestVars, embedVars, chunkVars, serviceVars>>

\* The catch block of processRAGResponse and of processStreamingRAGResponse:
\* the error message is saved and then emitted; when the save rejects, the
\* function rejects with nothing emitted (its caller does not await it).
HandleError(q, store) ==
  /\ queries[q].pc \in {"pq_thrown", "stream_thrown", "save_thrown"}
  /\ LET r == queries[q]
         errorMessage == Message("assistant", ErrorText, TRUE, <<>>)
     IN /\ history' = HistoryAfter(history, r.session, errorMessage, store)
        /\ channel' = IF Resolved(store)
             THEN Emit(channel, r.session,
                    << Event("bot-typing", q),
                       [Event("bot-message", q) EXCEPT !.message = errorMessage] >>)
             ELSE channel
        /\ queries' = IF Resolved(store)
             THEN [queries EXCEPT ![q].pc = "done", ![q].outcome = "error"]
             ELSE [queries EXCEPT ![q].pc = "rejected", ![q].outcome = "unhandled"]
  /\ UNCHANGED <<interactions, dbConnected>>
  /\ UNCHANGED <<ingestVars, embedVars, chunkVars, serviceVars>>

\* processStreamingRAGResponse after processRAGQuery resolved: streamResponse
\* builds the prompt from ragResult.sources and awaits generateContentStream;
\* when that rejects, the catch of streamResponse emits message-error.
StartStream(q, ok) ==
  /\ queries[q].pc = "pq_returned"
  /\ queries[q].mode = "streaming"
  /\ LET r == queries[q]
     IN /\ queries' = [queries EXCEPT ![q] =
             [r EXCEPT !.pc = IF ok THEN "streaming" ELSE "stream_thrown",
                       !.failedAt = IF ok THEN "none" ELSE "stream",
                       !.streamContext = r.result.sources,
                       !.streamPrompt = buildPrompt(r.result.sources),
                       !.streamCalls = @ + 1]]
        /\ channel' = IF ok THEN channel
                            ELSE Emit(channel, r.session, << Event("message-error", q) >>)
  /\ UNCHANGED <<history, interactions, dbConnected>>
  /\ UNCHANGED <<ingestVars, embedVars, chunkVars, serviceVars>>

\* Variant of the loop body that assigns the fragment to fullResponse instead
\* of appending it.
StreamFragment_Overwrites(q, chunkText) ==
  /\ queries[q].pc = "streaming"
  /\ Len(queries[q].fragments) < MaxFragments
  /\ queries' = [queries EXCEPT ![q].fragments = Append(@, chunkText),
                                ![q].fullResponse = chunkText]
  /\ channel' = Emit(channel, queries[q].session,
        << [Event("message-chunk", q) EXCEPT !.chunk = chunkText] >>)
  /\ UNCHANGED <<history, interactions, dbConnected>>
  /\ UNCHANGED <<ingestVars, embedVars, chunkVars, serviceVars>>

\* One iteration of the for await loop of streamResponse.
StreamFragment(q, chunkText) ==
  /\ queries[q].pc = "streaming"
  /\ Len(queries[q].fragments) < MaxFragments
  /\ queries' = [queries EXCEPT ![q].fragments = Append(@, chunkText),
                                ![q].fullResponse = @ \o chunkText]
  /\ channel' = Emit(channel, queries[q].session,
        << [Event("message-chunk", q) EXCEPT !.chunk = chunkText] >>)
  /\ UNCHANGED <<history, interactions, dbConnected>>
  /\ UNCHANGED <<ingestVars, embedVars, chunkVars, serviceVars>>

\* The provider stream ended: streamResponse emits the completion event and
\* returns fullResponse.
StreamEnd(q) ==
  /\ queries[q].pc = "streaming"
  /\ queries' = [queries EXCEPT ![q].pc = "stream_returned"]
  /\ channel' = Emit(channel, queries[q].session,
        << [Event("message-chunk", q) EXCEPT
              !.isComplete = TRUE, !.fullResponse = queries[q].fullResponse] >>)
  /\ UNCHANGED <<history, interactions, dbConnected>>
  /\ UNCHANGED <<ingestVars, embedVars, chunkVars, serviceVars>>

\* Variant of the catch block that returns the partial text instead of
\* rethrowing.
StreamFail_Swallows(q) ==
  /\ queries[q].pc = "streaming"
  /\ queries' = [queries EXCEPT ![q].pc = "stream_returned"]
  /\ channel' = Emit(channel, queries[q].session, << Event("message-error", q) >>)
  /\ UNCHANGED <<history, interactions, dbConnected>>
  /\ UNCHANGED <<ingestVars, embedVars, chunkVars, serviceVars>>

\* The provider stream failed: the catch block of streamResponse.
StreamFail(q) ==
  /\ queries[q].pc = "streaming"
  /\ queries' = [queries EXCEPT ![q].pc = "stream_thrown", ![q].failedAt = "stream"]
  /\ channel' = Emit(channel, queries[q].session, << Event("message-error", q) >>)
  /\ UNCHANGED <<history, interactions, dbConnected>>
  /\ UNCHANGED <<ingestVars, embedVars, chunkVars, serviceVars>>

\* processStreamingRAGResponse after streamResponse resolved.
FinishStreaming(q, store) ==
  /\ queries[q].pc = "stream_returned"
  /\ LET r == queries[q]
         botMessage == Message("assistant", r.fullResponse, FALSE, r.result.sources)
     IN /\ history' = HistoryAfter(history, r.session, botMessage, store)
        /\ channel' = IF Resolved(store)
             THEN Emit(channel, r.session, << Event("bot-typing", q) >>)
             ELSE channel
        /\ queries' = IF Resolved(store)
             THEN [queries EXCEPT ![q].pc = "done", ![q].outcome = "answered"]
             ELSE [queries EXCEPT ![q].pc = "save_thrown", ![q].failedAt = "save"]
  /\ UNCHANGED <<interactions, dbConnected>>
  /\ UNCHANGED <<ingestVars, embedVars, chunkVars, serviceVars>>

\* ------------------------------------------------------------------------
\* Embedding service
\* ------------------------------------------------------------------------
\* EmbeddingService constructor and the literal of generateEmbedding
maxRetries == 3
retryDelay == 1000
MaxInputLength == 8000

\* A text is a sequence of runs <<character, count>>, no two adjacent runs of
\* the same character: <<"a", 3>> is "aaa".
RECURSIVE TextLength(_)
TextLength(t) == IF t = <<>> THEN 0 ELSE Head(t)[2] + TextLength(Tail(t))

\* t + run
AppendRun(t, run) ==
  IF run[2] = 0 THEN t
  ELSE IF t # <<>> /\ t[Len(t)][1] = run[1]
    THEN [t EXCEPT ![Len(t)] = <<run[1], @[2] + run[2]>>]
    ELSE Append(t, run)

\* t.substring(0, n)
RECURSIVE Substring0(_, _)
Substring0(t, n) ==
  IF t = <<>> \/ n <= 0 THEN <<>>
  ELSE IF Head(t)[2] >= n THEN << <<Head(t)[1], n>> >>
  ELSE << Head(t) >> \o Substring0(Tail(t), n - Head(t)[2])

\* !text || text.trim().length === 0
IsBlank(t) == \A i \in 1..Len(t) : t[i][1] = " "

\* a is a prefix of b
IsPrefix(a, b) == TextLength(a) <= TextLength(b) /\ Substring0(b, TextLength(a)) = a

\* The texts generateEmbedding is called with.
EmbedTexts ==
  { <<>>,
    << <<" ", 3>> >>,
    << <<"a", 120>> >>,
    << <<"a", 7999>>, <<".", 1>> >>,
    << <<"a", 8000>> >>,
    << <<"a", 8001>> >>,
    << <<"a", 7000>>, <<"b", 3000>> >>,
    << <<"a", 8000>>, <<".", 3>> >> }

\* What one axios.post to the provider may do: a response with an embedding,
\* a response without one, or a rejection (HTTP error, timeout).
ProviderOutcomes == {"embedding", "invalid", "error"}

\* text.length > 8000 ? text.substring(0, 8000) + "..." : text
truncatedText(text) ==
  IF TextLength(text) > MaxInputLength
    THEN AppendRun(Substring0(text, MaxInputLength), <<".", 3>>)
    ELSE text

\* Variant of the retry test that allows one attempt more.
RetriesExhausted_OffByOne(attempt) == attempt = maxRetries + 1

\* attempt === this.maxRetries
RetriesExhausted(attempt) == attempt = maxRetries

IdleEmbedCall ==
  [pc |-> "idle", text |-> <<>>, sent |-> <<>>, attempt |-> 0,
   providerCalls |-> 0, replies |-> <<>>, waits |-> <<>>, error |-> "none"]

EmbedInit == embedCall = IdleEmbedCall

\* generateEmbedding up to the first axios.post: the two guards, the
\* truncation, attempt 1.
EmbedStart(text, keySet) ==
  /\ embedCall.pc = "idle"
  /\ embedCall' =
       IF IsBlank(text)
         THEN [IdleEmbedCall EXCEPT !.pc = "rejected", !.text = text, !.error = "empty"]
       ELSE IF ~keySet
         THEN [IdleEmbedCall EXCEPT !.pc = "rejected", !.text = text, !.error = "no_key"]
       ELSE [IdleEmbedCall EXCEPT !.pc = "calling", !.text = text,
                                  !.sent = truncatedText(text),
                                  !.attempt = 1, !.providerCalls = 1]
  /\ UNCHANGED <<ingestVars, queryVars, chunkVars, serviceVars>>

\* Variant of the catch block that waits retryDelay before every retry.
ProviderReply_FixedDelay(outcome) ==
  /\ embedCall.pc = "calling"
  /\ embedCall' =
       IF outcome = "embedding"
         THEN [embedCall EXCEPT !.pc = "resolved", !.replies = Append(@, outcome)]
       ELSE IF RetriesExhausted(embedCall.attempt)
         THEN [embedCall EXCEPT !.pc = "rejected", !.replies = Append(@, outcome),
                                !.error = "exhausted"]
       ELSE [embedCall EXCEPT !.pc = "waiting", !.replies = Append(@, outcome),
                              !.waits = Append(@, retryDelay)]
  /\ UNCHANGED <<ingestVars, queryVars, chunkVars, serviceVars>>

\* axios.post settled: return the embedding, or the catch block: throw after
\* the last attempt, else wait retryDelay * attempt.
ProviderReply(outcome) ==
  /\ embedCall.pc = "calling"
  /\ embedCall' =
       IF outcome = "embedding"
         THEN [embedCall EXCEPT !.pc = "resolved", !.replies = Append(@, outcome)]
       ELSE IF RetriesExhausted(embedCall.attempt)
         THEN [embedCall EXCEPT !.pc = "rejected", !.replies = Append(@, outcome),
                                !.error = "exhausted"]
       ELSE [embedCall EXCEPT !.pc = "waiting", !.replies = Append(@, outcome),
                              !.waits = Append(@, retryDelay * embedCall.attempt)]
  /\ UNCHANGED <<ingestVars, queryVars, chunkVars, serviceVars>>

\* The retry timer fired: the next iteration of the for loop posts again.
RetryAttempt ==
  /\ embedCall.pc = "waiting"
  /\ embedCall' = [embedCall EXCEPT !.pc = "calling", !.attempt = @ + 1,
                                    !.providerCalls = @ + 1]
  /\ UNCHANGED <<ingestVars, queryVars, chunkVars, serviceVars>>

\* ------------------------------------------------------------------------
\* Chunker
\* ------------------------------------------------------------------------
\* The defaults of chunkText and its two length thresholds
DefaultMaxChunkSize == 500
MinTextLength == 100
MinFinalChunkLength == 50

\* The sentences text.split(/[.!?]+/) yields, by content, trimmed length and
\* the length of the run of [.!?] that ends them in the text.
SentenceKinds ==
  {[body |-> "a", len |-> 40, stop |-> 1],
   [body |-> "b", len |-> 300, stop |-> 1],
   [body |-> "c", len |-> 20, stop |-> 90]}

\* The cleaned texts chunkText is called with, as the list of their sentences;
\* each sentence but the first follows the ". " that ended the one before.
ChunkInputs == UNION {[1..n -> SentenceKinds] : n \in 1..MaxSentences}

ChunkSizes == {200, DefaultMaxChunkSize}

Articles == {"article-1"}

\* A chunk text is a sequence of tokens: " ", "." and sentence bodies.
TokenLength(tok) ==
  IF tok \in {" ", "."} THEN 1 ELSE (CHOOSE k \in SentenceKinds : k.body = tok).len

RECURSIVE StringLength(_)
StringLength(t) == IF t = <<>> THEN 0 ELSE TokenLength(Head(t)) + StringLength(Tail(t))

\* sentences[j] as split leaves it (j counts from 0): with its leading blank.
RawSentence(sentences, j) ==
  IF j = 0 THEN <<sentences[j + 1].body>> ELSE <<" ", sentences[j + 1].body>>

\* text.length of the text the sentences were split from.
RECURSIVE InputLength(_, _)
InputLength(sentences, j) ==
  IF j >= Len(sentences) THEN 0
  ELSE StringLength(RawSentence(sentences, j)) + sentences[j + 1].stop
         + InputLength(sentences, j + 1)

\* sentences.slice(Math.max(0, i - 2), i).join(". ") + (length > 0 ? ". " : "")
RECURSIVE OverlapSeed(_, _, _)
\* Variant that seeds the next chunk with the last sentence only.
OverlapSeed_LastOnly(sentences, from, to) ==
  IF from >= to THEN <<>> ELSE RawSentence(sentences, to - 1) \o <<".", " ">>

OverlapSeed(sentences, from, to) ==
  IF from >= to THEN <<>>
  ELSE RawSentence(sentences, from) \o <<".", " ">> \o OverlapSeed(sentences, from + 1, to)

\* The object chunkText pushes.
MakeChunk(articleId, chunkIndex, currentChunk) ==
  [id |-> <<articleId, chunkIndex>>, articleId |-> articleId,
   chunkIndex |-> chunkIndex, text |-> Trim(currentChunk)]

\* A call of chunkText: its arguments and locals, and for every chunk the
\* loop emitted the sentence index it was emitted at and the seed of the next
\* buffer (seeds).
IdleChunker ==
  [pc |-> "idle", sentences |-> <<>>, maxChunkSize |-> 0, articleId |-> "none",
   i |-> 0, currentChunk |-> <<>>, chunkIndex |-> 0, chunks |-> <<>>,
   seeds |-> <<>>]

\* A returned call: arguments, result, and the buffer the loop left behind.
CompletedCall(c, chunks) ==
  [sentences |-> c.sentences, maxChunkSize |-> c.maxChunkSize,
   articleId |-> c.articleId, chunks |-> chunks,
   looped |-> c.pc = "loop", remaining |-> c.currentChunk,
   emittedInLoop |-> Len(c.chunks)]

ChunkInit ==
  /\ chunker = IdleChunker
  /\ chunkCalls = <<>>

\* Variant of the entry of chunkText that starts numbering where the
\* previous call stopped.
ChunkStart_KeepsIndex(sentences, maxChunkSize, articleId) ==
  /\ chunker.pc = "idle"
  /\ Len(chunkCalls) < MaxChunkCalls
  /\ LET c == [IdleChunker EXCEPT !.sentences = sentences,
                                  !.maxChunkSize = maxChunkSize,
                                  !.articleId = articleId,
                                  !.chunkIndex = chunker.chunkIndex]
     IN IF InputLength(sentences, 0) < MinTextLength
          THEN /\ chunkCalls' = Append(chunkCalls, CompletedCall(c, <<>>))
               /\ UNCHANGED chunker
          ELSE /\ chunker' = [c EXCEPT !.pc = "loop"]
               /\ UNCHANGED chunkCalls
  /\ UNCHANGED <<ingestVars, queryVars, embedVars, serviceVars>>

\* chunkText up to its for loop: the length guard, the split, the locals.
ChunkStart(sentences, maxChunkSize, articleId) ==
  /\ chunker.pc = "idle"
  /\ Len(chunkCalls) < MaxChunkCalls
  /\ LET c == [IdleChunker EXCEPT !.sentences = sentences,
                                  !.maxChunkSize = maxChunkSize,
                                  !.articleId = articleId]
     IN IF InputLength(sentences, 0) < MinTextLength
          THEN /\ chunkCalls' = Append(chunkCalls, CompletedCall(c, <<>>))
               /\ UNCHANGED chunker
          ELSE /\ chunker' = [c EXCEPT !.pc = "loop"]
               /\ UNCHANGED chunkCalls
  /\ UNCHANGED <<ingestVars, queryVars, embedVars, serviceVars>>

\* One iteration of the for loop of chunkText.
ChunkStep ==
  /\ chunker.pc = "loop"
  /\ chunker.i < Len(chunker.sentences)
  /\ LET c == chunker
         sentence == <<c.sentences[c.i + 1].body, ".">>
         emit == /\ StringLength(c.currentChunk) + StringLength(sentence) > c.maxChunkSize
                 /\ StringLength(c.currentChunk) > 0
         from == IF c.i - 2 > 0 THEN c.i - 2 ELSE 0
         start == IF emit THEN OverlapSeed(c.sentences, from, c.i) ELSE c.currentChunk
     IN chunker' = [c EXCEPT
          !.chunks = IF emit THEN Append(@, MakeChunk(c.articleId, c.chunkIndex, c.currentChunk))
                             ELSE @,
          !.chunkIndex = IF emit THEN @ + 1 ELSE @,
          !.seeds = IF emit THEN Append(@, [i |-> c.i, seed |-> start,
                                            emitted |-> Trim(c.currentChunk)])
                            ELSE @,
          !.currentChunk = start \o sentence \o <<" ">>,
          !.i = @ + 1]
  /\ UNCHANGED chunkCalls
  /\ UNCHANGED <<ingestVars, queryVars, embedVars, serviceVars>>

\* Variant of the end of chunkText that emits the remaining buffer whatever
\* its length.
ChunkFinish_AlwaysEmits ==
  /\ chunker.pc = "loop"
  /\ chunker.i = Len(chunker.sentences)
  /\ LET c == chunker
         chunks == Append(c.chunks, MakeChunk(c.articleId, c.chunkIndex, c.currentChunk))
     IN /\ chunkCalls' = Append(chunkCalls, CompletedCall(c, chunks))
        /\ chunker' = [IdleChunker EXCEPT !.chunkIndex = Len(chunks)]
  /\ UNCHANGED <<ingestVars, queryVars, embedVars, serviceVars>>

\* chunkText after the loop: the final chunk and the return.
ChunkFinish ==
  /\ chunker.pc = "loop"
  /\ chunker.i = Len(chunker.sentences)
  /\ LET c == chunker
         chunks == IF StringLength(Trim(c.currentChunk)) > MinFinalChunkLength
                     THEN Append(c.chunks, MakeChunk(c.articleId, c.chunkIndex, c.currentChunk))
                     ELSE c.chunks
     IN /\ chunkCalls' = Append(chunkCalls, CompletedCall(c, chunks))
        /\ chunker' = [IdleChunker EXCEPT !.chunkIndex = Len(chunks)]
  /\ UNCHANGED <<ingestVars, queryVars, embedVars, serviceVars>>

\* ------------------------------------------------------------------------
\* Context assembly, on any list of chunks
\* ------------------------------------------------------------------------
\* The chunk lists prepareContext may be given: distinct chunks in any order.
ChunkLists ==
  {s \in UNION {[1..n -> ChunkSet] : n \in 0..MaxResults} :
     \A i, j \in 1..Len(s) : i # j => s[i].id # s[j].id}

NoContextCall == [called |-> FALSE, chunks |-> <<>>, queryLen |-> 0, result |-> NoContext]

ContextInit == contextCall = NoContextCall

\* One call of prepareContext(chunks, query).
PrepareContextCall(chunks, queryLen) ==
  /\ ~contextCall.called
  /\ contextCall' = [called |-> TRUE, chunks |-> chunks, queryLen |-> queryLen,
                     result |-> prepareContext(chunks, queryLen)]
  /\ UNCHANGED <<batchCall, articleCall>>
  /\ UNCHANGED <<ingestVars, queryVars, embedVars, chunkVars, sessionVars>>

\* ------------------------------------------------------------------------
\* Batch embedding
\* ------------------------------------------------------------------------
batchSize == 10
BatchPause == 500

\* Texts are numbered 1..n; the sub-batch starting at offset i (0, 10, ...)
\* is texts.slice(i, i + batchSize).
SubBatch(i, n) == {k \in 1..n : k > i /\ k <= i + batchSize}

\* Variant of the test before the pause that also pauses after the last
\* sub-batch when it is full.
PauseNeeded_AfterFullLast(i, n) == i + batchSize <= n

\* if (i + batchSize < texts.length)
PauseNeeded(i, n) == i + batchSize < n

\* A call of generateBatchEmbeddings: the loop offset i, the local
\* `embeddings` (the texts whose embedding it holds, in order), the
\* generateEmbedding calls in flight, those that resolved and those that
\* rejected, the pauses taken, and what the caller received.
IdleBatch ==
  [pc |-> "idle", n |-> 0, i |-> 0, embeddings |-> <<>>, inFlight |-> {},
   resolved |-> {}, rejected |-> {}, pauses |-> <<>>, delivered |-> <<>>]

BatchInit == batchCall = IdleBatch

\* The members of a set of text numbers in ascending order.
RECURSIVE Ascending(_)
Ascending(set) ==
  IF set = {} THEN <<>>
  ELSE LET least == CHOOSE k \in set : \A o \in set : k <= o
       IN <<least>> \o Ascending(set \ {least})

\* generateBatchEmbeddings(texts) up to the first await: the guard and the
\* generateEmbedding calls of the first sub-batch.
BatchStart(n) ==
  /\ batchCall.pc = "idle"
  /\ batchCall' = IF n = 0 THEN [IdleBatch EXCEPT !.pc = "rejected"]
                  ELSE [IdleBatch EXCEPT !.pc = "running", !.n = n,
                                         !.inFlight = SubBatch(0, n)]
  /\ UNCHANGED <<contextCall, articleCall>>
  /\ UNCHANGED <<ingestVars, queryVars, embedVars, chunkVars, sessionVars>>

\* One generateEmbedding call of the sub-batch settles. The first rejection
\* rejects Promise.all and with it generateBatchEmbeddings; the last of ten
\* resolutions resolves Promise.all: the embeddings are pushed and the
\* function pauses or returns.
CallSettles(k, ok) ==
  /\ k \in batchCall.inFlight
  /\ LET b == [batchCall EXCEPT !.inFlight = @ \ {k},
                                !.resolved = IF ok THEN @ \cup {k} ELSE @,
                                !.rejected = IF ok THEN @ ELSE @ \cup {k}]
         pushed == b.embeddings \o Ascending(SubBatch(b.i, b.n))
     IN batchCall' =
          IF batchCall.pc # "running" THEN b
          ELSE IF ~ok THEN [b EXCEPT !.pc = "rejected"]
          ELSE IF b.inFlight # {} THEN b
          ELSE IF PauseNeeded(b.i, b.n)
            THEN [b EXCEPT !.pc = "pausing", !.embeddings = pushed,
                           !.pauses = Append(@, BatchPause)]
          ELSE [b EXCEPT !.pc = "resolved", !.embeddings = pushed, !.delivered = pushed]
  /\ UNCHANGED <<contextCall, articleCall>>
  /\ UNCHANGED <<ingestVars, queryVars, embedVars, chunkVars, sessionVars>>

\* The pause timer fired: i += batchSize and the loop test; the next
\* iteration starts the next sub-batch, or the function returns.
PauseElapsed ==
  /\ batchCall.pc = "pausing"
  /\ batchCall' =
       IF batchCall.i + batchSize < batchCall.n
         THEN [batchCall EXCEPT !.pc = "running", !.i = @ + batchSize,
                                !.inFlight = SubBatch(batchCall.i + batchSize, batchCall.n)]
         ELSE [batchCall EXCEPT !.pc = "resolved", !.i = @ + batchSize,
                                !.delivered = batchCall.embeddings]
  /\ UNCHANGED <<contextCall, articleCall>>
  /\ UNCHANGED <<ingestVars, queryVars, embedVars, chunkVars, sessionVars>>

\* ------------------------------------------------------------------------
\* Article processing
\* ------------------------------------------------------------------------
NoEmbedding == <<>>

\* The chunks chunkText returned for the article, without an embedding yet.
ArticleChunks(n) == [k \in 1..n |-> [chunkIndex |-> k - 1, embedding |-> NoEmbedding]]

\* A call of processArticle: the chunks, the position of the embedding loop,
\* the local embeddedChunks, the chunks whose embedding failed, the calls of
\* storeInVectorDB made (each with its chunk list) and the value returned;
\* then what ingestFromRSS did with that value: the entry's link, and whether
\* the article was pushed on `articles`.
IdleArticle ==
  [pc |-> "idle", chunks |-> <<>>, next |-> 0, embeddedChunks |-> <<>>,
   failedChunks |-> {}, upserts |-> <<>>, result |-> "none", chunkCount |-> 0,
   link |-> "none", pushed |-> FALSE]

ArticleInit == articleCall = IdleArticle

\* Variant that calls storeInVectorDB whatever the embedding loop left.
AfterEmbeddingLoop_AlwaysStores(a) ==
  [a EXCEPT !.pc = "storing", !.upserts = Append(@, a.embeddedChunks)]

\* processArticle after its embedding loop: storeInVectorDB is called if a
\* chunk was embedded, else the article is returned with chunks: 0.
AfterEmbeddingLoop(a) ==
  IF Len(a.embeddedChunks) > 0
    THEN [a EXCEPT !.pc = "storing", !.upserts = Append(@, a.embeddedChunks)]
    ELSE [a EXCEPT !.pc = "returned", !.result = "article", !.chunkCount = 0]

\* processArticle up to the first generateEmbedding call: the content is
\* fetched (or the description taken), cleaned and chunked into n chunks.
ProcessArticleStart(n) ==
  /\ articleCall.pc = "idle"
  /\ LET a == [IdleArticle EXCEPT !.chunks = ArticleChunks(n)]
     IN articleCall' = IF n = 0 THEN AfterEmbeddingLoop(a)
                       ELSE [a EXCEPT !.pc = "embedding", !.next = 1]
  /\ UNCHANGED <<contextCall, batchCall>>
  /\ UNCHANGED <<ingestVars, queryVars, embedVars, chunkVars, sessionVars>>

\* Variant of the loop body that keeps a chunk whose embedding failed.
ChunkEmbedded_KeepsFailed(ok) ==
  /\ articleCall.pc = "embedding"
  /\ LET a == articleCall
         chunk == a.chunks[a.next]
         pushed == [a EXCEPT
           !.embeddedChunks =
              Append(@, IF ok THEN [chunk EXCEPT !.embedding = <<"vector", chunk.chunkIndex>>]
                              ELSE chunk),
           !.failedChunks = IF ok THEN @ ELSE @ \cup {chunk.chunkIndex}]
     IN articleCall' = IF a.next < Len(a.chunks) THEN [pushed EXCEPT !.next = @ + 1]
                       ELSE AfterEmbeddingLoop(pushed)
  /\ UNCHANGED <<contextCall, batchCall>>
  /\ UNCHANGED <<ingestVars, queryVars, embedVars, chunkVars, sessionVars>>

\* generateEmbedding(chunk.text) settled for the current chunk: the chunk is
\* pushed with its embedding, or the failure is logged and the chunk left out.
ChunkEmbedded(ok) ==
  /\ articleCall.pc = "embedding"
  /\ LET a == articleCall
         chunk == a.chunks[a.next]
         pushed == [a EXCEPT
           !.embeddedChunks =
              IF ok THEN Append(@, [chunk EXCEPT !.embedding = <<"vector", chunk.chunkIndex>>])
                    ELSE @,
           !.failedChunks = IF ok THEN @ ELSE @ \cup {chunk.chunkIndex}]
     IN articleCall' = IF a.next < Len(a.chunks) THEN [pushed EXCEPT !.next = @ + 1]
                       ELSE AfterEmbeddingLoop(pushed)
  /\ UNCHANGED <<contextCall, batchCall>>
  /\ UNCHANGED <<ingestVars, queryVars, embedVars, chunkVars, sessionVars>>

\* storeInVectorDB settled: the article is returned with its chunk count, or
\* the catch of processArticle returns null.
StoreSettles(ok) ==
  /\ articleCall.pc = "storing"
  /\ articleCall' =
       IF ok THEN [articleCall EXCEPT !.pc = "returned", !.result = "article",
                                      !.chunkCount = Len(articleCall.embeddedChunks)]
             ELSE [articleCall EXCEPT !.pc = "returned", !.result = "null"]
  /\ UNCHANGED <<contextCall, batchCall>>
  /\ UNCHANGED <<ingestVars, queryVars, embedVars, chunkVars, sessionVars>>

\* ingestFromRSS after `await this.processArticle(item, rssUrl)` for an entry
\* whose link was not in processedArticles: a non-null article is pushed and
\* its link added to the set; null changes nothing.
ArticleReturned(link) ==
  /\ articleCall.pc = "returned"
  /\ link \notin processedArticles
  /\ LET article == articleCall.result = "article"
     IN /\ articleCall' = [articleCall EXCEPT !.pc = "done", !.link = link,
                                              !.pushed = article]
        /\ processedArticles' = IF article THEN processedArticles \cup {link}
                                           ELSE processedArticles
        /\ processedCount' = IF article THEN [processedCount EXCEPT ![link] = @ + 1]
                                        ELSE processedCount
  /\ UNCHANGED <<contextCall, batchCall>>
  /\ UNCHANGED <<isRunning, stats, passes, triggers, droppedRuns>>
  /\ UNCHANGED <<queryVars, embedVars, chunkVars, sessionVars>>

\* ------------------------------------------------------------------------
\* Session store
\* ------------------------------------------------------------------------
\* SessionManager constructor and the default limit of getSessionHistory
maxMessagesPerSession == 100
DefaultLimit == 50

Callers == 1..MaxCallers

\* The limits and offsets a client of GET /history asks for.
HistoryLimits == {1, DefaultLimit, 100}
HistoryOffsets == {0, 1, 60}

\* redis.get of a key that does not exist gives null.
NoSession == [exists |-> FALSE, messageCount |-> 0]

IdleAdd == [pc |-> "idle", session |-> NoSession, current |-> NoSession]

NoRead == [limit |-> 0, offset |-> 0, messages |-> <<>>]

Min(a, b) == IF a <= b THEN a ELSE b

\* LRANGE key start stop with indexes from 0, both ends included, stop
\* clipped to the end of the list.
LRange(list, start, stop) ==
  LET last == Min(stop, Len(list) - 1)
  IN IF start > last THEN <<>>
     ELSE [k \in 1..(last - start + 1) |-> list[start + k]]

\* LPUSH key value
LPush(list, value) == <<value>> \o list

\* LTRIM key start stop keeps what LRANGE key start stop returns.
LTrim(list, start, stop) == LRange(list, start, stop)

\* Array.prototype.reverse
Reverse(t) == [k \in 1..Len(t) |-> t[Len(t) - k + 1]]

\* Variant of getSessionHistory that returns the range as the store gives it.
getSessionHistory_NoReverse(list, limit, offset) ==
  LRange(list, offset, offset + limit - 1)

\* SessionManager.getSessionHistory
getSessionHistory(list, limit, offset) ==
  Reverse(LRange(list, offset, offset + limit - 1))

SessionInit ==
  /\ sessionRecord = NoSession
  /\ historyList = <<>>
  /\ adds = [c \in Callers |-> IdleAdd]
  /\ pushedCount = 0
  /\ completedAdds = 0
  /\ historyRead = NoRead

\* SessionManager.createSession, for a session id not in use.
CreateSession ==
  /\ ~sessionRecord.exists
  /\ \A c \in Callers : adds[c].pc = "idle"
  /\ sessionRecord' = [exists |-> TRUE, messageCount |-> 0]
  /\ completedAdds' = 0
  /\ UNCHANGED <<historyList, adds, pushedCount, historyRead>>
  /\ UNCHANGED <<contextCall, batchCall, articleCall>>
  /\ UNCHANGED <<ingestVars, queryVars, embedVars, chunkVars>>

\* addMessageToSession: redis.lpush(historyKey, JSON.stringify(message));
\* `most` bounds the number of calls.
AddMessage_Lpush(c, most) ==
  /\ adds[c].pc = "idle"
  /\ pushedCount < most
  /\ pushedCount' = pushedCount + 1
  /\ historyList' = LPush(historyList, pushedCount + 1)
  /\ adds' = [adds EXCEPT ![c] = [IdleAdd EXCEPT !.pc = "ltrim"]]
  /\ historyRead' = NoRead
  /\ UNCHANGED <<sessionRecord, completedAdds>>
  /\ UNCHANGED <<contextCall, batchCall, articleCall>>
  /\ UNCHANGED <<ingestVars, queryVars, embedVars, chunkVars>>

\* Variant of the trim that keeps one message more.
AddMessage_Ltrim_OffByOne(c) ==
  /\ adds[c].pc = "ltrim"
  /\ historyList' = LTrim(historyList, 0, maxMessagesPerSession)
  /\ adds' = [adds EXCEPT ![c].pc = "getSession"]
  /\ historyRead' = NoRead
  /\ UNCHANGED <<sessionRecord, pushedCount, completedAdds>>
  /\ UNCHANGED <<contextCall, batchCall, articleCall>>
  /\ UNCHANGED <<ingestVars, queryVars, embedVars, chunkVars>>

\* addMessageToSession: redis.expire(historyKey, sessionTTL), which changes
\* no value, and redis.ltrim(historyKey, 0, maxMessagesPerSession - 1)
AddMessage_Ltrim(c) ==
  /\ adds[c].pc = "ltrim"
  /\ historyList' = LTrim(historyList, 0, maxMessagesPerSession - 1)
  /\ adds' = [adds EXCEPT ![c].pc = "getSession"]
  /\ historyRead' = NoRead
  /\ UNCHANGED <<sessionRecord, pushedCount, completedAdds>>
  /\ UNCHANGED <<contextCall, batchCall, articleCall>>
  /\ UNCHANGED <<ingestVars, queryVars, embedVars, chunkVars>>

\* addMessageToSession: `const session = await this.getSession(sessionId)`;
\* without a session the call returns the message.
AddMessage_GetSession(c) ==
  /\ adds[c].pc = "getSession"
  /\ adds' = [adds EXCEPT ![c] =
        IF sessionRecord.exists
          THEN [@ EXCEPT !.pc = "updateSession", !.session = sessionRecord]
          ELSE IdleAdd]
  /\ UNCHANGED <<sessionRecord, historyList, pushedCount, completedAdds, historyRead>>
  /\ UNCHANGED <<contextCall, batchCall, articleCall>>
  /\ UNCHANGED <<ingestVars, queryVars, embedVars, chunkVars>>

\* updateSession: its own `await this.getSession(sessionId)`; nothing deletes
\* the session here, so "Session not found" is not thrown.
UpdateSession_Get(c) ==
  /\ adds[c].pc = "updateSession"
  /\ sessionRecord.exists
  /\ adds' = [adds EXCEPT ![c].pc = "setex", ![c].current = sessionRecord]
  /\ UNCHANGED <<sessionRecord, historyList, pushedCount, completedAdds, historyRead>>
  /\ UNCHANGED <<contextCall, batchCall, articleCall>>
  /\ UNCHANGED <<ingestVars, queryVars, embedVars, chunkVars>>

\* updateSession: redis.setex of {...session, messageCount: <the count read
\* by addMessageToSession> + 1}; addMessageToSession then returns.
UpdateSession_Setex(c) ==
  /\ adds[c].pc = "setex"
  /\ sessionRecord' = [adds[c].current EXCEPT
                          !.messageCount = adds[c].session.messageCount + 1]
  /\ adds' = [adds EXCEPT ![c] = IdleAdd]
  /\ completedAdds' = completedAdds + 1
  /\ UNCHANGED <<historyList, pushedCount, historyRead>>
  /\ UNCHANGED <<contextCall, batchCall, articleCall>>
  /\ UNCHANGED <<ingestVars, queryVars, embedVars, chunkVars>>

\* A call of getSessionHistory(sessionId, limit, offset).
GetSessionHistory(limit, offset) ==
  /\ historyRead' = [limit |-> limit, offset |-> offset,
                     messages |-> getSessionHistory(historyList, limit, offset)]
  /\ UNCHANGED <<sessionRecord, historyList, adds, pushedCount, completedAdds>>
  /\ UNCHANGED <<contextCall, batchCall, articleCall>>
  /\ UNCHANGED <<ingestVars, queryVars, embedVars, chunkVars>>

\* ------------------------------------------------------------------------
\* Specifications
\* ------------------------------------------------------------------------
Init == IngestInit /\ QueryInit /\ EmbedInit /\ ChunkInit /\ ContextInit /\ BatchInit
        /\ ArticleInit /\ SessionInit

\* The ingestion job, the trigger route and the ingestion service.
NextIngest ==
  \/ \E kind \in JobTriggers : RunIngestion(kind)
  \/ RouteTrigger
  \/ \E p \in Passes, ok \in BOOLEAN : FetchFeed(p, ok)
  \/ \E p \in Passes : CheckItem(p)
  \/ \E p \in Passes, ok \in BOOLEAN : ArticleProcessed(p, ok)
  \/ \E p \in Passes : FinishRun(p)
  \/ \E p \in Passes : RouteRespond(p)

SpecIngest == Init /\ [][NextIngest]_vars

\* The job alone: cron, startup and manual runs, which isRunning keeps from
\* overlapping.
NextJob ==
  \/ \E kind \in JobTriggers : RunIngestion(kind)
  \/ \E p \in Passes, ok \in BOOLEAN : FetchFeed(p, ok)
  \/ \E p \in Passes : CheckItem(p)
  \/ \E p \in Passes, ok \in BOOLEAN : ArticleProcessed(p, ok)
  \/ \E p \in Passes : FinishRun(p)

SpecJob == Init /\ [][NextJob]_vars

\* One chat message through the query pipeline, over every input.
NextQuery ==
  \/ \E queryLen \in QueryLens, sessionId \in Sessions, streaming \in BOOLEAN :
       PostMessage(1, queryLen, sessionId, streaming)
  \/ \E ok \in BOOLEAN : EmbedQuery(1, ok)
  \/ SearchFail(1)
  \/ \E results \in SearchAnswers : SearchDone(1, results)
  \/ \E outcome \in GenOutcomes : GenerateDone(1, outcome)
  \/ \E insertOk \in BOOLEAN : LogDone(1, insertOk)
  \/ \E sessionId \in Sessions, store \in StoreOutcomes : RefuseMessage(1, sessionId, store)
  \/ \E store \in StoreOutcomes : DeliverResponse(1, store)
  \/ \E store \in StoreOutcomes : HandleError(1, store)
  \/ \E ok \in BOOLEAN : StartStream(1, ok)
  \/ \E chunkText \in Fragments : StreamFragment(1, chunkText)
  \/ StreamEnd(1)
  \/ StreamFail(1)
  \/ \E store \in StoreOutcomes : FinishStreaming(1, store)

SpecQuery == Init /\ [][NextQuery]_vars

\* The same with progress: every call the handlers await (embedding, search,
\* generation, the fragment stream, the log and the session store) settles,
\* resolved or rejected, and the continuation of the handler then runs.
SpecQueryLive == SpecQuery /\ WF_vars(NextQuery)

\* Two chat messages handled concurrently, in the same or in different
\* sessions: the handlers interleave at their awaits. Each message is a short
\* query; the index answers one relevant chunk, generation answers a text or
\* fails, the log insert succeeds and a stream yields fragments of one kind;
\* every call that leads to an emit (embedding, search, generation, stream,
\* session store) may fail.
ChatPair == {q \in Queries : q <= 2}

ChatAnswers == {<<IndexChunks[1]>>}

ChatOutcomes == {[kind |-> "text", text |-> <<"An", " ", "answer">>],
                 [kind |-> "other", text |-> <<>>]}

ChatFragments == {<<"Hello">>}

NextChat ==
  \E q \in ChatPair :
    \/ \E sessionId \in Sessions, streaming \in BOOLEAN :
         PostMessage(q, 20, sessionId, streaming)
    \/ \E sessionId \in Sessions, store \in StoreOutcomes : RefuseMessage(q, sessionId, store)
    \/ \E ok \in BOOLEAN : EmbedQuery(q, ok)
    \/ SearchFail(q)
    \/ \E results \in ChatAnswers : SearchDone(q, results)
    \/ \E outcome \in ChatOutcomes : GenerateDone(q, outcome)
    \/ LogDone(q, TRUE)
    \/ \E store \in StoreOutcomes : DeliverResponse(q, store)
    \/ \E store \in StoreOutcomes : HandleError(q, store)
    \/ \E ok \in BOOLEAN : StartStream(q, ok)
    \/ \E chunkText \in ChatFragments : StreamFragment(q, chunkText)
    \/ StreamEnd(q)
    \/ StreamFail(q)
    \/ \E store \in StoreOutcomes : FinishStreaming(q, store)

SpecChat == Init /\ [][NextChat]_vars

\* The session store of one session: up to MaxAdds calls of
\* addMessageToSession by MaxCallers concurrent callers, interleaved at their
\* awaits, before and after the session is created.
NextSession ==
  \/ CreateSession
  \/ \E c \in Callers :
       \/ AddMessage_Lpush(c, MaxAdds)
       \/ AddMessage_Ltrim(c)
       \/ AddMessage_GetSession(c)
       \/ UpdateSession_Get(c)
       \/ UpdateSession_Setex(c)

SpecSession == Init /\ [][NextSession]_vars

\* The history of one session over up to MaxMessages calls of
\* addMessageToSession by MaxCallers concurrent callers, and reads of it. No
\* session record is created (the chat route calls addMessageToSession
\* without createSession), so each call returns after its getSession.
NextHistory ==
  \/ \E c \in Callers :
       \/ AddMessage_Lpush(c, MaxMessages)
       \/ AddMessage_Ltrim(c)
       \/ AddMessage_GetSession(c)
  \/ \E limit \in HistoryLimits, offset \in HistoryOffsets : GetSessionHistory(limit, offset)

SpecHistory == Init /\ [][NextHistory]_vars

\* One call of generateEmbedding, over every text and provider behaviour.
NextEmbed ==
  \/ \E text \in EmbedTexts, keySet \in BOOLEAN : EmbedStart(text, keySet)
  \/ \E outcome \in ProviderOutcomes : ProviderReply(outcome)
  \/ RetryAttempt

SpecEmbed == Init /\ [][NextEmbed]_vars

\* Calls of chunkText one after the other, over every input.
NextChunk ==
  \/ \E sentences \in ChunkInputs, maxChunkSize \in ChunkSizes, articleId \in Articles :
       ChunkStart(sentences, maxChunkSize, articleId)
  \/ ChunkStep
  \/ ChunkFinish

SpecChunk == Init /\ [][NextChunk]_vars

\* prepareContext applied to every chunk list and query length.
NextContext ==
  \E chunks \in ChunkLists, queryLen \in QueryLens : PrepareContextCall(chunks, queryLen)

SpecContext == Init /\ [][NextContext]_vars

\* One call of generateBatchEmbeddings over up to MaxTexts texts.
NextBatch ==
  \/ \E n \in 0..MaxTexts : BatchStart(n)
  \/ \E k \in 1..MaxTexts, ok \in BOOLEAN : CallSettles(k, ok)
  \/ PauseElapsed

SpecBatch == Init /\ [][NextBatch]_vars

\* One call of processArticle for an article of up to MaxArticleChunks chunks,
\* and what ingestFromRSS does with its result.
NextArticle ==
  \/ \E n \in 0..MaxArticleChunks : ProcessArticleStart(n)
  \/ \E ok \in BOOLEAN : ChunkEmbedded(ok)
  \/ \E ok \in BOOLEAN : StoreSettles(ok)
  \/ \E link \in Links(FeedItems) : ArticleReturned(link)

SpecArticle == Init /\ [][NextArticle]_vars

\* ------------------------------------------------------------------------
\* Properties
\* ------------------------------------------------------------------------
\* processQuery returned a value for q (it did not throw).
Completed(q) == queries[q].result # NoResult

\* The events of one type emitted for query q to session s, in order.
EventsOf(q, s, type) ==
  SelectSeq(channel[s], LAMBDA e : e.query = q /\ e.type = type)

RECURSIVE Concat(_)
Concat(texts) == IF texts = <<>> THEN <<>> ELSE Head(texts) \o Concat(Tail(texts))

\* C1: at any time at most one pass of ingestAllSources is executing,
\* whichever trigger started it.
C1_SingleRunAtATime == Cardinality(ExecutingPasses) <= 1

\* C2: a query whose search results are all below the threshold (or empty)
\* gets the fixed fallback text, no citation, chunksUsed = 0 and causes no
\* call of the generation service, in synchronous and in streaming mode.
C2_NoMatchShortCircuit ==
  \A q \in Queries :
    queries[q].path = "no_match" =>
      /\ queries[q].result.response = NoMatchText
      /\ queries[q].result.sources = <<>>
      /\ queries[q].result.metadata.chunksUsed = 0
      /\ queries[q].genCalls = 0
      /\ queries[q].streamCalls = 0
      /\ (queries[q].pc = "done" /\ queries[q].outcome = "answered" =>
            history[queries[q].session][Len(history[queries[q].session])].content
              = NoMatchText)

\* C3: every chunk of the assembled context and every citation has a score
\* at or above the effective threshold, and each citation is that of a search
\* result at or above it; results at 0.9 and 0.5 with threshold 0.7 give one
\* used chunk and one citation.
C3_UsedChunksAboveThreshold ==
  \A q \in Queries :
    LET r == queries[q]
        th == EffectiveThreshold(r.options)
    IN /\ \A i \in 1..Len(r.context.chunks) : r.context.chunks[i].score >= th
       /\ \A i \in 1..Len(r.sources) :
            /\ r.sources[i].score >= th
            /\ \E j \in 1..Len(r.searchResults) :
                 /\ r.searchResults[j].articleUrl = r.sources[i].url
                 /\ r.searchResults[j].score = r.sources[i].score
       /\ \A i \in 1..Len(r.streamContext) : r.streamContext[i].score >= th
       /\ ( /\ Completed(q)
            /\ Len(r.searchResults) = 2
            /\ r.searchResults[1].score = 9
            /\ r.searchResults[2].score = 5
            /\ th = 7
            /\ r.queryLen = 20 )
          => (Len(r.context.chunks) = 1 /\ Len(r.result.sources) = 1)

C3_Witness ==
  \E q \in Queries :
    /\ Completed(q)
    /\ Len(queries[q].searchResults) = 2
    /\ queries[q].searchResults[1].score = 9
    /\ queries[q].searchResults[2].score = 5
    /\ queries[q].queryLen = 20
    /\ Len(queries[q].context.chunks) = 1
    /\ Len(queries[q].result.sources) = 1

\* C4: the context text of prepareContext is never longer than contextWindow:
\* the preamble plus the rendered used chunks fit the budget, for every query.
C4_ContextWithinBudget ==
  \A q \in Queries :
    queries[q].path = "generate" =>
      /\ queries[q].context.textLength <= contextWindow
      /\ QueryContextLength(queries[q].queryLen)
           + SumLengths(queries[q].context.chunks) <= contextWindow

\* C5: every citation processQuery returns is for an article with at least
\* one chunk in the assembled context.
C5_CitationsFromUsedChunks ==
  \A q \in Queries :
    \A i \in 1..Len(queries[q].result.sources) :
      \E j \in 1..Len(queries[q].context.chunks) :
        queries[q].context.chunks[j].articleUrl = queries[q].result.sources[i].url

\* C6: the citation list has one entry per article URL at most, each with the
\* maximum score among that article's used chunks, at most maxSources
\* entries, sorted by score descending.
C6_CitationList ==
  \A q \in Queries :
    LET srcs == queries[q].result.sources
        used == queries[q].context.chunks
    IN /\ \A i, j \in 1..Len(srcs) : i # j => srcs[i].url # srcs[j].url
       /\ \A i \in 1..Len(srcs) :
            /\ \E j \in 1..Len(used) :
                 used[j].articleUrl = srcs[i].url /\ used[j].score = srcs[i].score
            /\ \A j \in 1..Len(used) :
                 used[j].articleUrl = srcs[i].url => used[j].score <= srcs[i].score
       /\ Len(srcs) <= maxSources
       /\ \A i \in 1..(Len(srcs) - 1) : srcs[i].score >= srcs[i + 1].score

\* C7: with the database connected, every query processQuery completes,
\* the no-match short-circuit included, is submitted to the interaction log
\* exactly once.
C7_EveryCompletedQueryLogged ==
  \A q \in Queries :
    (Completed(q) /\ dbConnected) => queries[q].logCalls = 1

\* C8: a failing interaction log (database not connected, insert rejected)
\* never makes processQuery throw and leaves the returned response, citations
\* and metadata what generation and retrieval made them; a synchronous query
\* whose answer the session store accepted is then answered with that
\* response.
C8_LogFailureIsSwallowed ==
  \A q \in Queries :
    LET r == queries[q]
    IN /\ r.logOutcome \in {"disconnected", "insert_failed"} =>
            /\ r.pc # "pq_thrown"
            /\ Completed(q)
            /\ (r.mode = "sync" /\ r.pc = "done" /\ r.failedAt # "save" =>
                  /\ r.outcome = "answered"
                  /\ history[r.session][Len(history[r.session])].content = r.response)
       \* with a working and with a failing log alike
       /\ r.logOutcome \in {"inserted", "disconnected", "insert_failed"} =>
            r.result = [response |-> r.response,
                        sources |-> prepareSources(r.relevantChunks),
                        metadata |-> [chunksFound |-> Len(r.searchResults),
                                      chunksUsed |-> Len(r.relevantChunks),
                                      contextLength |-> r.context.textLength]]

C8_Witness ==
  \E q \in Queries :
    /\ queries[q].logOutcome = "insert_failed"
    /\ queries[q].mode = "sync"
    /\ queries[q].pc = "done"
    /\ queries[q].outcome = "answered"

\* C9: while a stream delivers fragments f1..fn the session receives one
\* message-chunk event per fragment with isComplete = false, in order; once the
\* stream has ended these are followed by exactly one isComplete = true event
\* carrying f1 + ... + fn, and nothing follows it.
C9_StreamEventsInOrder ==
  \A q \in Queries :
    LET r == queries[q]
        evs == IF r.session \in Sessions THEN EventsOf(q, r.session, "message-chunk")
                                         ELSE <<>>
        n == Len(r.fragments)
        ended == \/ r.pc = "stream_returned"
                 \/ (r.streamCalls > 0 /\ (r.outcome = "answered" \/ r.failedAt = "save"))
    IN /\ Len(evs) = IF ended THEN n + 1 ELSE n
       /\ \A i \in 1..n :
            /\ i <= Len(evs)
            /\ evs[i].chunk = r.fragments[i]
            /\ ~evs[i].isComplete
       /\ ended =>
            /\ evs[n + 1].isComplete
            /\ evs[n + 1].fullResponse = Concat(r.fragments)

C9_Witness ==
  \E q \in Queries :
    /\ queries[q].pc = "done"
    /\ queries[q].outcome = "answered"
    /\ queries[q].fragments = << <<"Hello">>, <<" ", "world">> >>
    /\ LET evs == EventsOf(q, queries[q].session, "message-chunk")
       IN /\ Len(evs) = 3
          /\ evs[3].isComplete
          /\ evs[3].fullResponse = <<"Hello", " ", "world">>

\* C10: once a message-error event was emitted for a query (the provider
\* stream failed after k >= 0 fragments) it is the only one, no isComplete =
\* true event and no fragment event beyond the k delivered ones exists, the
\* stream was requested once, and the failure reached the caller, which ends
\* the query with the error message if the session store accepts it.
C10_StreamFailureAborts ==
  \A q \in Queries :
    LET r == queries[q]
        errs == IF r.session \in Sessions THEN EventsOf(q, r.session, "message-error")
                                          ELSE <<>>
        evs == IF r.session \in Sessions THEN EventsOf(q, r.session, "message-chunk")
                                         ELSE <<>>
    IN errs # <<>> =>
         /\ Len(errs) = 1
         /\ Len(evs) = Len(r.fragments)
         /\ \A i \in 1..Len(evs) : ~evs[i].isComplete
         /\ r.streamCalls = 1
         /\ r.genCalls <= 1
         /\ r.pc \in {"stream_thrown", "rejected", "done"}
         /\ r.failedAt = "stream"
         /\ (r.pc = "done" =>
               /\ r.outcome = "error"
               /\ history[r.session][Len(history[r.session])].error)

C10_Witness ==
  \E q \in Queries :
    /\ queries[q].pc = "done"
    /\ queries[q].outcome = "error"
    /\ Len(queries[q].fragments) = 1
    /\ Len(EventsOf(q, queries[q].session, "message-error")) = 1

\* C11: for each query the vector index search is invoked at most once and
\* the generation service (generateContent and generateContentStream
\* together) at most once, in synchronous and in streaming mode.
C11_SearchAndGenerationOnce ==
  \A q \in Queries :
    /\ queries[q].searchCalls <= 1
    /\ queries[q].genCalls + queries[q].streamCalls <= 1

\* C12: generateEmbedding posts to the provider at most 3 times per text; two
\* failures followed by a success resolve without error; three failures reject
\* with the retry-exhausted error and no fourth post follows.
C12_EmbeddingRetry ==
  LET c == embedCall
      failed(i) == c.replies[i] # "embedding"
  IN /\ c.providerCalls <= 3
     /\ Len(c.replies) <= c.providerCalls
     /\ (Len(c.replies) = 3 /\ failed(1) /\ failed(2) /\ ~failed(3)) =>
          (c.pc = "resolved" /\ c.error = "none")
     /\ (Len(c.replies) = 3 /\ failed(1) /\ failed(2) /\ failed(3)) =>
          (c.pc = "rejected" /\ c.error = "exhausted" /\ c.providerCalls = 3)
     /\ c.pc = "resolved" => c.replies[Len(c.replies)] = "embedding"

C12_Witness ==
  /\ embedCall.pc = "resolved"
  /\ embedCall.replies = <<"error", "invalid", "embedding">>

\* C20: the text generateEmbedding posts is a prefix of its input and at most
\* 8000 characters long.
C20_SentTextIsBoundedPrefix ==
  embedCall.providerCalls > 0 =>
    /\ IsPrefix(embedCall.sent, embedCall.text)
    /\ TextLength(embedCall.sent) <= MaxInputLength

\* The longest sentence of an input, with its period.
LongestSentence(sentences) ==
  CHOOSE n \in {sentences[j].len + 1 : j \in 1..Len(sentences)} :
    \A j \in 1..Len(sentences) : sentences[j].len + 1 <= n

\* C13: every chunk chunkText emits is at most maxChunkSize plus one sentence
\* long (here: plus the longest sentence of the text and its separator).
C13_ChunkLengthBound ==
  \A k \in 1..Len(chunkCalls) :
    \A n \in 1..Len(chunkCalls[k].chunks) :
      StringLength(chunkCalls[k].chunks[n].text)
        <= chunkCalls[k].maxChunkSize + LongestSentence(chunkCalls[k].sentences) + 1

Emitted(r) == r.allArticles \o r.articles

\* The links of the entries of a log with the given result, in order.
LinksWith(log, result) ==
  LET sel == SelectSeq(log, LAMBDA e : e.result = result)
  IN [k \in 1..Len(sel) |-> sel[k].link]

\* The links processed successfully before entry k of the log of pass r.
ProcessedBefore(r, k) ==
  r.seen \cup {r.log[j].link : j \in {i \in 1..(k - 1) : r.log[i].result = "ok"}}

\* C15: in runs that do not overlap, an entry whose link was already
\* processed successfully is skipped without a call of processArticle and
\* every other entry is processed, so a run emits only new links, each once;
\* a feed of 3 entries of which 2 were processed yields exactly the third.
C15_ProcessedLinksSkipped ==
  \A p \in Passes :
    LET r == passes[p]
    IN /\ \A k \in 1..Len(r.log) :
            (r.log[k].link \in ProcessedBefore(r, k)) <=> (r.log[k].result = "skipped")
       /\ \A k \in 1..Len(Emitted(r)) :
            /\ Emitted(r)[k] \notin r.seen
            /\ \A j \in 1..Len(Emitted(r)) : Emitted(r)[j] = Emitted(r)[k] => j = k
       /\ ( /\ r.pc = "returned"
            /\ r.seen = {"a", "b"}
            /\ r.fetched[1]
            /\ [feed |-> 1, link |-> "c", result |-> "ok"] \in {r.log[k] : k \in 1..Len(r.log)} )
          => r.allArticles = <<"c">>

C15_Witness ==
  \E p \in Passes :
    /\ passes[p].pc = "returned"
    /\ passes[p].seen = {"a", "b"}
    /\ passes[p].fetched[1]
    /\ passes[p].allArticles = <<"c">>

\* C16: no link is processed successfully more than once in a process
\* lifetime, whatever the interleaving of the ingestion passes.
C16_LinkProcessedAtMostOnce ==
  \A l \in Links(FeedItems) : processedCount[l] <= 1

\* The entries a pass visits, in order: those of the feeds it could fetch.
RECURSIVE Visits(_, _)
Visits(fetched, feed) ==
  IF feed > Len(fetched) THEN <<>>
  ELSE (IF fetched[feed] THEN FeedItems[feed] ELSE <<>>) \o Visits(fetched, feed + 1)

\* C17: when ingestAllSources returns, it has attempted every feed, visited
\* every entry of every feed it could fetch, whatever failed before, and its
\* result is the successfully processed articles in feed order.
C17_FailuresDoNotAbortRun ==
  \A p \in Passes :
    passes[p].pc = "returned" =>
      /\ Len(passes[p].fetched) = Len(FeedItems)
      /\ [k \in 1..Len(passes[p].log) |-> passes[p].log[k].link] = Visits(passes[p].fetched, 1)
      /\ passes[p].allArticles = LinksWith(passes[p].log, "ok")

C17_Witness ==
  \E p \in Passes :
    /\ passes[p].pc = "returned"
    /\ passes[p].fetched = <<TRUE, TRUE>>
    /\ LinksWith(passes[p].log, "failed") = <<"a", "c">>
    /\ passes[p].allArticles = <<"b", "c">>

\* t is s without its leading and trailing blanks.
IsTrimOf(t, s) ==
  /\ t # <<>>
  /\ t[1] # " "
  /\ t[Len(t)] # " "
  /\ \E i \in 1..Len(s) :
       /\ i + Len(t) - 1 <= Len(s)
       /\ t = SubSeq(s, i, i + Len(t) - 1)
       /\ \A k \in 1..Len(s) : (k < i \/ k > i + Len(t) - 1) => s[k] = " "

\* C18: generateResponse returns a non-blank provider text trimmed, one
\* canned text for a safety block, another one for an exceeded quota, and
\* throws for every other failure and for a blank or empty provider text; it
\* never returns an empty text.
C18_GenerationOutcomes ==
  /\ SafetyText # QuotaText
  /\ \A q \in Queries :
       LET outcome == queries[q].genOutcome
           gen == queries[q].genResult
           blank == \A k \in 1..Len(outcome.text) : outcome.text[k] = " "
       IN outcome.kind # "none" =>
            /\ (outcome.kind = "text" /\ ~blank) => (~gen.thrown /\ IsTrimOf(gen.text, outcome.text))
            /\ outcome.kind = "safety" => (~gen.thrown /\ gen.text = SafetyText)
            /\ outcome.kind = "quota" => (~gen.thrown /\ gen.text = QuotaText)
            /\ (outcome.kind = "other" \/ (outcome.kind = "text" /\ blank)) => gen.thrown
            /\ ~gen.thrown => gen.text # <<>>
            /\ gen.thrown => queries[q].result = NoResult

C18_Witness ==
  \E q \in Queries :
    /\ queries[q].genOutcome = [kind |-> "text", text |-> <<" ", "padded", " ">>]
    /\ queries[q].genResult = [thrown |-> FALSE, text |-> <<"padded">>]
    /\ queries[q].pc = "done"

\* The events of one type emitted for query q, on whatever channel.
EventsAnywhere(q, type) ==
  {e \in UNION {{channel[s][k] : k \in 1..Len(channel[s])} : s \in Sessions} :
     e.query = q /\ e.type = type}

C30_LinearRetryDelay ==
  LET c == embedCall
      failures == Len(SelectSeq(c.replies, LAMBDA o : o # "embedding"))
  IN /\ \A n \in 1..Len(c.waits) : c.waits[n] = n * 1000
     /\ Len(c.waits) = IF c.error = "exhausted" THEN failures - 1 ELSE failures
     /\ c.pc = "waiting" => Len(c.waits) = c.attempt
     /\ c.error = "exhausted" => (c.pc = "rejected" /\ c.waits = <<1000, 2000>>)

C30_Witness ==
  /\ embedCall.pc = "rejected"
  /\ embedCall.error = "exhausted"
  /\ embedCall.waits = <<1000, 2000>>
  /\ Len(embedCall.replies) = 3

\* The sentences of a chunk text, without blanks and periods.
Bodies(t) == SelectSeq(t, LAMBDA tok : tok \notin {" ", "."})

\* The last n elements of a sequence (all of it if it is shorter).
LastOf(t, n) == IF Len(t) <= n THEN t ELSE SubSeq(t, Len(t) - n + 1, Len(t))

C28_FinalChunkAndIndexes ==
  \A k \in 1..Len(chunkCalls) :
    LET call == chunkCalls[k]
        final == StringLength(Trim(call.remaining)) > 50
    IN /\ \A n \in 1..Len(call.chunks) :
            /\ call.chunks[n].chunkIndex = n - 1
            /\ call.chunks[n].id = <<call.articleId, n - 1>>
       /\ call.looped =>
            /\ Len(call.chunks) = call.emittedInLoop + (IF final THEN 1 ELSE 0)
            /\ final => call.chunks[Len(call.chunks)].text = Trim(call.remaining)
       /\ ~call.looped => call.chunks = <<>>

C28_Witness ==
  /\ Len(chunkCalls) = 2
  /\ chunkCalls[1].looped
  /\ chunkCalls[1].chunks = <<>>
  /\ Len(chunkCalls[2].chunks) = 3
  /\ chunkCalls[2].emittedInLoop = 2

\* How often a stage event occurs in a trace, and where it occurs first.
Count(t, e) == Len(SelectSeq(t, LAMBDA x : x = e))

Pos(t, e) == IF Count(t, e) = 0 THEN 0 ELSE CHOOSE i \in 1..Len(t) :
                                              t[i] = e /\ \A j \in 1..(i - 1) : t[j] # e

\* C23: processQuery calls the search only after the query embedding
\* returned, and the generation only after the search returned and the
\* context was assembled from at least one chunk that passed the threshold;
\* a failed embedding is followed by no search and no generation, a failed
\* search by no generation; processQuery ends exactly once, returning a
\* result or throwing.
C23_StageOrder ==
  \A q \in Queries :
    LET r == queries[q]
        t == r.trace
        ends == Count(t, "returned") + Count(t, "thrown")
    IN /\ Count(t, "search_call") = r.searchCalls
       /\ Count(t, "gen_call") = r.genCalls
       /\ r.searchCalls <= 1 /\ r.genCalls <= 1
       /\ r.searchCalls = 1 =>
            (Pos(t, "embed_ok") > 0 /\ Pos(t, "embed_ok") < Pos(t, "search_call"))
       /\ r.genCalls = 1 =>
            /\ Pos(t, "search_ok") > Pos(t, "search_call")
            /\ Pos(t, "context") > Pos(t, "search_ok")
            /\ Pos(t, "gen_call") > Pos(t, "context")
            /\ Len(r.relevantChunks) >= 1
       /\ Count(t, "embed_failed") > 0 => (r.searchCalls = 0 /\ r.genCalls = 0)
       /\ Count(t, "search_failed") > 0 => r.genCalls = 0
       /\ ends <= 1
       /\ ends = 1 => t[Len(t)] \in {"returned", "thrown"}
       /\ Count(t, "returned") = 1 <=> r.result # NoResult
       /\ r.pc \in {"pq_returned", "pq_thrown", "streaming", "stream_returned",
                    "stream_thrown", "save_thrown", "rejected", "done"} <=> ends = 1

C23_Witness ==
  \E q \in Queries :
    /\ queries[q].trace = <<"embed_call", "embed_ok", "search_call", "search_ok",
                            "context", "gen_call", "gen_ok", "log_call", "returned">>
    /\ queries[q].pc = "done"

\* s is the list `chunks` ordered by score descending, chunks of equal score
\* in the order they have in `chunks`.
IsStableRanking(s, chunks) ==
  /\ Len(s) = Len(chunks)
  /\ \A i \in 1..Len(chunks) : \E j \in 1..Len(s) : s[j] = chunks[i]
  /\ \A i, j \in 1..Len(s) :
       i < j =>
         \/ s[i].score > s[j].score
         \/ /\ s[i].score = s[j].score
            /\ \E a, b \in 1..Len(chunks) : a < b /\ chunks[a] = s[i] /\ chunks[b] = s[j]

\* The rendered length of the first m chunks of a list.
PrefixLength(s, m) == SumLengths(SubSeq(s, 1, m))

\* C24: the chunks prepareContext uses are the longest prefix of its input
\* ranked by score descending (ties in input order) that fits contextWindow
\* after the preamble; each is rendered whole; nothing behind the first chunk
\* that does not fit is used.
C24_GreedyPrefixPacking ==
  contextCall.called =>
    LET used == contextCall.result.chunks
        preamble == QueryContextLength(contextCall.queryLen)
        n == Len(used)
    IN \E s \in [1..Len(contextCall.chunks) -> ChunkSet] :
         /\ IsStableRanking(s, contextCall.chunks)
         /\ n <= Len(s)
         /\ used = SubSeq(s, 1, n)
         /\ \A m \in 1..n : preamble + PrefixLength(s, m) <= contextWindow
         /\ n < Len(s) => preamble + PrefixLength(s, n + 1) > contextWindow
         /\ contextCall.result.textLength = preamble + PrefixLength(s, n)
         /\ contextCall.result.length = preamble + PrefixLength(s, n)

C24_Witness ==
  /\ contextCall.called
  /\ [k \in 1..Len(contextCall.chunks) |-> contextCall.chunks[k].id] = <<4, 5, 1>>
  /\ contextCall.queryLen = 20
  /\ [k \in 1..Len(contextCall.result.chunks) |-> contextCall.result.chunks[k].id] = <<1>>

\* C25: the counts a query returns and logs are exact: chunksFound is the
\* number of search results, chunksUsed the number of chunks in the assembled
\* context.
C25_TelemetryCountsExact ==
  /\ \A q \in Queries :
       Completed(q) =>
         /\ queries[q].result.metadata.chunksFound = Len(queries[q].searchResults)
         /\ queries[q].result.metadata.chunksUsed = Len(queries[q].context.chunks)
  /\ \A i \in 1..Len(interactions) :
       LET row == interactions[i]
       IN /\ row.metadata.chunksFound = Len(queries[row.query].searchResults)
          /\ row.metadata.chunksUsed = Len(queries[row.query].context.chunks)

\* C26: the prompt of a streaming query's fragment stream contains the text
\* of every chunk of the context assembled for that query.
C26_StreamPromptGrounded ==
  \A q \in Queries :
    queries[q].streamCalls > 0 =>
      \A j \in 1..Len(queries[q].context.chunks) :
        \E k \in 1..Len(queries[q].streamPrompt) :
          queries[q].streamPrompt[k].text = queries[q].context.chunks[j].id

\* C22: when generateBatchEmbeddings has ended, the embedding of every text
\* whose generateEmbedding call resolved was delivered to the caller, also
\* if another text of the batch failed.
C22_BatchFailureIsolated ==
  batchCall.pc \in {"resolved", "rejected"} =>
    \A k \in batchCall.resolved :
      \E j \in 1..Len(batchCall.delivered) : batchCall.delivered[j] = k

\* The number of the sub-batch a text belongs to.
SubBatchOf(k) == (k - 1) \div 10

\* C29: the calls in flight belong to one sub-batch of at most 10 texts, a
\* sub-batch starts only when every call of the one before has resolved, and
\* there is one pause of 500 ms between consecutive sub-batches and none after
\* the last.
C29_SubBatchesInSequence ==
  LET b == batchCall
  IN /\ Cardinality(b.inFlight) <= 10
     /\ \A k, l \in b.inFlight : SubBatchOf(k) = SubBatchOf(l)
     /\ \A k \in b.inFlight :
          \A l \in 1..b.n : SubBatchOf(l) < SubBatchOf(k) => l \in b.resolved
     /\ \A j \in 1..Len(b.pauses) : b.pauses[j] = 500
     /\ b.pc = "running" => Len(b.pauses) = b.i \div 10
     /\ b.pc = "pausing" =>
          /\ b.inFlight = {}
          /\ Len(b.pauses) = b.i \div 10 + 1
          /\ SubBatch(b.i + 10, b.n) # {}
     /\ b.pc = "resolved" =>
          /\ Len(b.pauses) = (b.n - 1) \div 10
          /\ b.delivered = [k \in 1..b.n |-> k]

C29_Witness ==
  /\ batchCall.pc = "resolved"
  /\ batchCall.n = 12
  /\ Len(batchCall.pauses) = 1
  /\ Len(batchCall.delivered) = 12

\* C21: the chunk list processArticle gives to the vector index holds every
\* chunk of the article whose embedding succeeded, in order, each with its
\* embedding, and no chunk whose embedding failed.
C21_EmbeddingFailurePerChunk ==
  LET a == articleCall
      tried == IF a.pc = "embedding" THEN a.next - 1 ELSE Len(a.chunks)
  IN /\ \A k \in 1..tried :
          (a.chunks[k].chunkIndex \notin a.failedChunks)
            <=> (\E j \in 1..Len(a.embeddedChunks) :
                   a.embeddedChunks[j].chunkIndex = a.chunks[k].chunkIndex)
     /\ \A u \in 1..Len(a.upserts) :
          /\ \A j \in 1..Len(a.upserts[u]) :
               /\ a.upserts[u][j].embedding # NoEmbedding
               /\ a.upserts[u][j].chunkIndex \notin a.failedChunks
          /\ \A k \in 1..Len(a.chunks) :
               a.chunks[k].chunkIndex \notin a.failedChunks =>
                 \E j \in 1..Len(a.upserts[u]) :
                   a.upserts[u][j].chunkIndex = a.chunks[k].chunkIndex
          /\ \A i, j \in 1..Len(a.upserts[u]) :
               i < j => a.upserts[u][i].chunkIndex < a.upserts[u][j].chunkIndex
     /\ a.pc \in {"storing", "returned"} =>
          Len(a.upserts) = IF Cardinality(a.failedChunks) < Len(a.chunks) THEN 1 ELSE 0

C21_Witness ==
  /\ articleCall.pc = "returned"
  /\ articleCall.result = "article"
  /\ articleCall.failedChunks = {1}
  /\ Len(articleCall.chunks) = 3
  /\ Len(articleCall.upserts) = 1
  /\ [j \in 1..2 |-> articleCall.upserts[1][j].chunkIndex] = <<0, 2>>

\* C36: storeInVectorDB is never given an empty chunk list; an article with
\* no chunk, or whose every chunk failed to embed, causes no upsert, is
\* returned as an article with chunks = 0, is pushed on the run's result and
\* has its link in processedArticles.
C36_NoEmptyUpsert ==
  LET a == articleCall
      nothingEmbedded == Cardinality(a.failedChunks) = Len(a.chunks)
  IN /\ \A u \in 1..Len(a.upserts) : Len(a.upserts[u]) > 0
     /\ (a.pc \in {"returned", "done"} /\ nothingEmbedded) =>
          /\ a.upserts = <<>>
          /\ a.result = "article"
          /\ a.chunkCount = 0
     /\ (a.pc = "done" /\ nothingEmbedded) =>
          /\ a.pushed
          /\ a.link \in processedArticles
          /\ processedCount[a.link] = 1

C36_Witness ==
  /\ articleCall.pc = "done"
  /\ Len(articleCall.chunks) = 2
  /\ articleCall.failedChunks = {0, 1}
  /\ articleCall.upserts = <<>>
  /\ articleCall.chunkCount = 0
  /\ articleCall.pushed
  /\ articleCall.link = "b"
  /\ processedArticles = {"b"}

C36_WitnessNoChunk ==
  /\ articleCall.pc = "done"
  /\ articleCall.chunks = <<>>
  /\ articleCall.pushed
  /\ articleCall.link \in processedArticles

\* A run started by runIngestion that has not gone through its finally block.
JobRuns == {p \in Passes : passes[p].origin \in JobTriggers /\ passes[p].pc # "idle"}

\* Runs that went through the try or the catch block of runIngestion.
EndedRuns(st) == st.successfulRuns + st.failedRuns

RunAccounts ==
  /\ stats.totalRuns = EndedRuns(stats) + (IF isRunning THEN 1 ELSE 0)
  /\ isRunning <=> JobRuns # {}
  /\ Cardinality(JobRuns) <= 1

RunSteps ==
  /\ (isRunning /\ ~isRunning') =>
       /\ JobRuns' = {}
       /\ EndedRuns(stats') = EndedRuns(stats) + 1
       /\ stats'.totalRuns = stats.totalRuns
  /\ (~isRunning /\ triggers' # triggers) =>
       /\ isRunning'
       /\ stats' = [stats EXCEPT !.totalRuns = @ + 1]
  /\ (isRunning /\ triggers' # triggers) =>
       /\ droppedRuns' = droppedRuns + 1
       /\ stats' = stats
       /\ isRunning' = isRunning
       /\ passes' = passes

\* C34: totalRuns = successfulRuns + failedRuns + (1 if isRunning else 0);
\* isRunning is true exactly while a run started by runIngestion executes and
\* is reset when that run ends, which also counts the run as successful or
\* failed; the next trigger is then accepted; a dropped trigger changes no
\* counter and starts nothing.
C34_RunAccounting == []RunAccounts /\ [][RunSteps]_vars

C34_Witness ==
  /\ stats.totalRuns = 2
  /\ stats.successfulRuns = 1
  /\ stats.failedRuns = 0
  /\ isRunning
  /\ droppedRuns = 1
  /\ \E p \in Passes : passes[p].pc = "article"

\* The entry pass p is at.
CurrentLink(p) == FeedItems[passes[p].feed][passes[p].item]

\* The seen-link set holds the links processArticle returned an article for,
\* and an entry is skipped only for a link of the set.
SeenLinksAreProcessed ==
  /\ processedArticles = {l \in Links(FeedItems) : processedCount[l] > 0}
  /\ \A p \in Passes : \A k \in 1..Len(passes[p].log) :
       passes[p].log[k].result \in {"skipped", "ok"} =>
         passes[p].log[k].link \in processedArticles

\* What a step does to the seen-link set and to the result of the run.
SeenLinkSteps ==
  /\ processedArticles \subseteq processedArticles'
  /\ \A p \in Passes :
       (passes[p].pc = "article" /\ passes'[p] # passes[p]) =>
         LET entry == passes'[p].log[Len(passes'[p].log)]
         IN /\ Len(passes'[p].log) = Len(passes[p].log) + 1
            /\ entry.link = CurrentLink(p)
            /\ entry.result \in {"ok", "failed"}
            /\ entry.result = "failed" =>
                 /\ processedArticles' = processedArticles
                 /\ Emitted(passes'[p]) = Emitted(passes[p])
            /\ entry.result = "ok" =>
                 /\ processedArticles' = processedArticles \cup {CurrentLink(p)}
                 /\ Emitted(passes'[p]) = Append(Emitted(passes[p]), CurrentLink(p))
  /\ (processedArticles' # processedArticles) =>
       \E p \in Passes : passes[p].pc = "article" /\ passes'[p] # passes[p]
  /\ \A p \in Passes :
       (passes[p].pc = "items" /\ passes'[p] # passes[p]
          /\ CurrentLink(p) \notin processedArticles) =>
         /\ passes'[p].pc = "article"
         /\ passes'[p].log = passes[p].log

\* C35: the seen-link set only grows; a link enters it only in the step in
\* which processArticle returned an article for it; when processArticle
\* fails the set and the result of the run are unchanged, and a run that
\* meets a link not in the set calls processArticle for it again.
C35_SeenLinksFrame == []SeenLinksAreProcessed /\ [][SeenLinkSteps]_vars

\* Link b was processed by the first run and link a, met by it, was not; the
\* second run processes a again, now with success.
C35_Witness ==
  /\ stats.successfulRuns = 1
  /\ \E p \in Passes :
       /\ passes[p].seen = {"b"}
       /\ passes[p].pc = "items"
       /\ passes[p].log = <<[feed |-> 1, link |-> "a", result |-> "ok"]>>
  /\ processedArticles = {"a", "b"}

\* Every event emitted for query q to session s, in order.
AllEventsOf(q, s) == SelectSeq(channel[s], LAMBDA e : e.query = q)

TypingEvents(s) == SelectSeq(channel[s], LAMBDA e : e.type = "bot-typing")

TypingOn(s) ==
  /\ TypingEvents(s) # <<>>
  /\ TypingEvents(s)[Len(TypingEvents(s))].typing

\* C32: a session whose typing indicator was switched on by bot-typing true
\* eventually receives bot-typing false, whatever call fails.
C32_TypingEventuallyCleared ==
  \A s \in Sessions : TypingOn(s) ~> ~TypingOn(s)

\* The same unless the session store rejected the error message in the catch
\* block of the handler.
C32_ClearedUnlessErrorSaveRejected ==
  \A s \in Sessions :
    TypingOn(s) ~> (~TypingOn(s) \/ \E q \in Queries : queries[q].pc = "rejected")

\* The handler rejected after bot-typing true: the indicator stays on.
C32_StuckTyping ==
  \E q \in Queries :
    /\ queries[q].pc = "rejected"
    /\ TypingOn(queries[q].session)

\* C31: every event on the channel of a session was emitted for a query of
\* that session, whatever the interleaving of the queries in flight.
C31_EventsStayInSession ==
  \A s \in Sessions : \A k \in 1..Len(channel[s]) :
    queries[channel[s][k].query].session = s

\* Two queries of different sessions, both in their fragment stream, each
\* session having received events of its own query.
C31_Witness ==
  \E a, b \in Queries :
    /\ queries[a].session = "s1" /\ queries[b].session = "s2"
    /\ queries[a].pc = "streaming" /\ queries[b].pc = "streaming"
    /\ EventsOf(a, "s1", "message-chunk") # <<>>
    /\ EventsOf(b, "s2", "message-chunk") # <<>>
    /\ EventsOf(a, "s1", "bot-typing") # <<>>
    /\ EventsOf(b, "s2", "user-message") # <<>>

\* C37: the messageCount of a session is the number of addMessageToSession
\* calls completed for it since it was created.
C37_MessageCountExact ==
  sessionRecord.exists => sessionRecord.messageCount = completedAdds

\* Calls in flight between their lpush and their ltrim.
Untrimmed == Cardinality({c \in Callers : adds[c].pc = "ltrim"})

\* C38: the stored history holds the most recently pushed messages, newest
\* first, at most 100 of them once every call in flight has trimmed, and
\* exactly the last min(n, 100) of the n pushed; getSessionHistory returns
\* the messages at positions offset .. offset + limit - 1 from the newest,
\* oldest first.
C38_HistoryCapAndOrder ==
  /\ Len(historyList) <= maxMessagesPerSession + Untrimmed
  /\ Untrimmed = 0 => Len(historyList) = Min(pushedCount, maxMessagesPerSession)
  /\ \A k \in 1..Len(historyList) : historyList[k] = pushedCount - k + 1
  /\ historyRead # NoRead =>
       LET m == historyRead.messages
           newest == pushedCount - historyRead.offset
       IN /\ Len(m) = IF Len(historyList) - historyRead.offset < 0 THEN 0
                       ELSE Min(historyRead.limit, Len(historyList) - historyRead.offset)
          /\ \A i \in 1..Len(m) : m[i] = newest - Len(m) + i
          /\ \A i \in 1..(Len(m) - 1) : m[i] < m[i + 1]

C37_LostUpdate ==
  /\ sessionRecord.exists
  /\ completedAdds = 2
  /\ sessionRecord.messageCount = 1
  /\ \A c \in Callers : adds[c].pc = "idle"

C38_Witness ==
  /\ pushedCount = 102
  /\ Len(historyList) = 100
  /\ historyList[1] = 102 /\ historyList[100] = 3
  /\ \A c \in Callers : adds[c].pc = "idle"
  /\ historyRead.limit = DefaultLimit /\ historyRead.offset = 1
  /\ historyRead.messages = [i \in 1..50 |-> 51 + i]

====
